---- MODULE Spec2Model ----
(***************************************************************************)
(* Record linkage and arbitrage detection of src/main.py.                  *)
(*                                                                         *)
(* A team name is a sequence of characters, a character a one-element      *)
(* string.  Python floats are modelled as exact rationals <<num, den>>     *)
(* in lowest terms with den > 0; a kickoff time "HH:MM" is the pair        *)
(* <<HH, MM>> and the empty time string is <<>>.                           *)
(***************************************************************************)
EXTENDS Integers, Sequences, FiniteSets, TLC

(***************************************************************************)
(* Rational arithmetic standing for Python float arithmetic.               *)
(***************************************************************************)
Abs(x) == IF x < 0 THEN -x ELSE x

RECURSIVE Gcd(_, _)
Gcd(x, y) == IF y = 0 THEN x ELSE Gcd(y, x % y)

\* The fraction n/d in lowest terms with a positive denominator.
Rat(n, d) ==
    LET g == Gcd(Abs(n), Abs(d))
    IN  IF d < 0 THEN <<(-n) \div g, (-d) \div g>> ELSE <<n \div g, d \div g>>

RAdd(x, y) == Rat(x[1] * y[2] + y[1] * x[2], x[2] * y[2])
RSub(x, y) == Rat(x[1] * y[2] - y[1] * x[2], x[2] * y[2])
RMul(x, y) ==
    LET g1 == Gcd(Abs(x[1]), y[2])
        g2 == Gcd(Abs(y[1]), x[2])
    IN  Rat((x[1] \div g1) * (y[1] \div g2), (x[2] \div g2) * (y[2] \div g1))
RDiv(x, y) == RMul(x, <<y[2], y[1]>>)
RLe(x, y) == x[1] * y[2] <= y[1] * x[2]
RLt(x, y) == x[1] * y[2] < y[1] * x[2]
RGe(x, y) == RLe(y, x)
RGt(x, y) == RLt(y, x)
RMax(x, y) == IF RLe(x, y) THEN y ELSE x
RMin(x, y) == IF RLe(x, y) THEN x ELSE y
RZero == <<0, 1>>
ROne == <<1, 1>>

(***************************************************************************)
(* Characters.  Alphabet lists the characters that survive normalize_team  *)
(* in code-point order, so that the position in it orders characters the   *)
(* way Python orders strings.                                              *)
(***************************************************************************)
Alphabet ==
    <<" ", "&", "0", "1", "2", "3", "4", "5", "6", "7", "8", "9",
      "a", "b", "c", "d", "e", "f", "g", "h", "i", "j", "k", "l", "m",
      "n", "o", "p", "q", "r", "s", "t", "u", "v", "w", "x", "y", "z">>
UpperCase ==
    <<"A", "B", "C", "D", "E", "F", "G", "H", "I", "J", "K", "L", "M",
      "N", "O", "P", "Q", "R", "S", "T", "U", "V", "W", "X", "Y", "Z">>
LowerCase ==
    <<"a", "b", "c", "d", "e", "f", "g", "h", "i", "j", "k", "l", "m",
      "n", "o", "p", "q", "r", "s", "t", "u", "v", "w", "x", "y", "z">>
\* Accented letters (written as base letter plus mark) and their base letter.
Accented == <<"e'", "c'", "s^", "z^", "u:">>
Unaccented == <<"e", "c", "s", "z", "u">>

CodePoint(c) == CHOOSE i \in 1..Len(Alphabet) : Alphabet[i] = c

IsWordChar(c) == c \notin {" ", "&"}

lower(c) ==
    IF \E i \in 1..Len(UpperCase) : UpperCase[i] = c
    THEN LowerCase[CHOOSE i \in 1..Len(UpperCase) : UpperCase[i] = c]
    ELSE c

strip_accents(c) ==
    IF \E i \in 1..Len(Accented) : Accented[i] = c
    THEN Unaccented[CHOOSE i \in 1..Len(Accented) : Accented[i] = c]
    ELSE c

LowerSeq(s) == [i \in 1..Len(s) |-> lower(s[i])]
StripAccentsSeq(s) == [i \in 1..Len(s) |-> strip_accents(s[i])]

RECURSIVE DropChars(_, _)
DropChars(s, drop) ==
    IF s = <<>> THEN <<>>
    ELSE IF Head(s) \in drop THEN DropChars(Tail(s), drop)
    ELSE <<Head(s)>> \o DropChars(Tail(s), drop)

\* re.sub(r"\s+", " ", s).strip()
RECURSIVE CollapseSpaces(_, _)
CollapseSpaces(s, prevSpace) ==
    IF s = <<>> THEN <<>>
    ELSE IF Head(s) = " "
         THEN IF prevSpace \/ Tail(s) = <<>> \/ \A i \in 1..Len(Tail(s)) : Tail(s)[i] = " "
              THEN CollapseSpaces(Tail(s), TRUE)
              ELSE <<" ">> \o CollapseSpaces(Tail(s), TRUE)
         ELSE <<Head(s)>> \o CollapseSpaces(Tail(s), FALSE)

\* The characters of [’'`], the first and the last written by name.
Apostrophes == {"'", "rsquo", "grave"}

ToSpace(c) == IF c \in {".", "-", "endash", "emdash", "_", "/", "(", ")"} THEN " " ELSE c

normalize_team(s) ==
    LET s0 == StripAccentsSeq(LowerSeq(s))
        s1 == DropChars(s0, Apostrophes)
        s2 == [i \in 1..Len(s1) |-> ToSpace(s1[i])]
    IN  CollapseSpaces(s2, TRUE)

(***************************************************************************)
(* Tokens, n-grams and difflib.SequenceMatcher.                            *)
(***************************************************************************)
\* re.split(r"\s+", n) without the empty pieces
RECURSIVE SplitWords(_, _)
SplitWords(s, cur) ==
    IF s = <<>> THEN (IF cur = <<>> THEN <<>> ELSE <<cur>>)
    ELSE IF Head(s) = " "
         THEN (IF cur = <<>> THEN <<>> ELSE <<cur>>) \o SplitWords(Tail(s), <<>>)
         ELSE SplitWords(Tail(s), Append(cur, Head(s)))

SeqRange(s) == {s[i] : i \in 1..Len(s)}

_STOPWORDS ==
    { <<"f","c">>, <<"c","f">>, <<"s","c">>, <<"i","f">>, <<"a","f","c">>, <<"b","k">>,
      <<"f","k">>, <<"k","k">>, <<"a","c">>, <<"a","s">>, <<"c","d">>, <<"s","d">>,
      <<"u","d">>, <<"a","c","f">>, <<"s","v">>, <<"s","s">>, <<"s","p">>, <<"c","a">>,
      <<"u","n","i","t","e","d">>, <<"c","i","t","y">>, <<"c","l","u","b">>,
      <<"t","h","e">>, <<"d","e">>, <<"l","a">>, <<"e","l">>, <<"d","a">>, <<"d","o">>,
      <<"d","e","l">>, <<"d","e","p">>, <<"a","t","l","e","t","i","c","o">>,
      <<"a","t","l">>, <<"c","a","l","c","i","o">>, <<"c","p">>, <<"s","t">>,
      <<"s","a","i","n","t">>, <<"s","a","i","n","t","s">>, <<"o","m">>,
      <<"p","s","g">>, <<"b","c">>, <<"b","c","f">>, <<"w">>, <<"w","o","m">>,
      <<"w","o","m","e","n">>, <<"l","a","d","i","e","s">> }

team_tokens(name) == SeqRange(SplitWords(normalize_team(name), <<>>)) \ _STOPWORDS

\* SequenceMatcher.find_longest_match on a[alo+1..ahi], b[blo+1..bhi] (no junk:
\* the autojunk heuristic needs 200 characters): the longest common block, of
\* those the one starting earliest in a, of those the one starting earliest in b.
CommonBlocks(a, b, alo, ahi, blo, bhi) ==
    { t \in (alo..ahi) \X (blo..bhi) \X (0..(ahi - alo)) :
        /\ t[1] + t[3] <= ahi
        /\ t[2] + t[3] <= bhi
        /\ \A d \in 1..t[3] : a[t[1] + d] = b[t[2] + d] }

find_longest_match(a, b, alo, ahi, blo, bhi) ==
    LET blocks == CommonBlocks(a, b, alo, ahi, blo, bhi)
        k == CHOOSE k \in {t[3] : t \in blocks} : \A t \in blocks : t[3] <= k
        i == CHOOSE i \in {t[1] : t \in blocks} :
                 /\ \E t \in blocks : t[1] = i /\ t[3] = k
                 /\ \A t \in blocks : t[3] = k => i <= t[1]
        j == CHOOSE j \in {t[2] : t \in blocks} :
                 /\ <<i, j, k>> \in blocks
                 /\ \A t \in blocks : (t[3] = k /\ t[1] = i) => j <= t[2]
    IN  <<i, j, k>>

\* Total size of SequenceMatcher.get_matching_blocks
RECURSIVE MatchedChars(_, _, _, _, _, _)
MatchedChars(a, b, alo, ahi, blo, bhi) ==
    IF alo >= ahi \/ blo >= bhi THEN 0
    ELSE LET m == find_longest_match(a, b, alo, ahi, blo, bhi)
         IN  IF m[3] = 0 THEN 0
             ELSE m[3] + MatchedChars(a, b, alo, m[1], blo, m[2])
                       + MatchedChars(a, b, m[1] + m[3], ahi, m[2] + m[3], bhi)

fuzzy(a, b) ==
    IF Len(a) + Len(b) = 0 THEN ROne
    ELSE Rat(2 * MatchedChars(a, b, 0, Len(a), 0, Len(b)), Len(a) + Len(b))

_ngrams(s0, n) ==
    LET s == CollapseSpaces(s0, TRUE)
    IN  IF Len(s) < n THEN (IF s = <<>> THEN {} ELSE {s})
        ELSE {SubSeq(s, i, i + n - 1) : i \in 1..(Len(s) - n + 1)}

token_jaccard(a, b) ==
    IF a = {} \/ b = {} THEN RZero
    ELSE Rat(Cardinality(a \cap b), Cardinality(a \cup b))

token_dice(a, b) ==
    IF a = {} \/ b = {} THEN RZero
    ELSE Rat(2 * Cardinality(a \cap b), Cardinality(a) + Cardinality(b))

\* Python's order of strings: by code point, a proper prefix first.
RECURSIVE StrLess(_, _)
StrLess(s, t) ==
    IF t = <<>> THEN FALSE
    ELSE IF s = <<>> THEN TRUE
    ELSE IF Head(s) = Head(t) THEN StrLess(Tail(s), Tail(t))
    ELSE CodePoint(Head(s)) < CodePoint(Head(t))

RECURSIVE SortedSeq(_)
SortedSeq(S) ==
    IF S = {} THEN <<>>
    ELSE LET m == CHOOSE x \in S : \A y \in S \ {x} : StrLess(x, y)
         IN  <<m>> \o SortedSeq(S \ {m})

Prefix(s, n) == SubSeq(s, 1, IF Len(s) < n THEN Len(s) ELSE n)

RECURSIVE Concat(_)
Concat(ss) == IF ss = <<>> THEN <<>> ELSE Head(ss) \o Concat(Tail(ss))

Prefix4(t) == Prefix(t, 4)

team_signature(name) ==
    LET toks == SortedSeq(team_tokens(name))
    IN  Prefix(Concat([i \in 1..Len(toks) |-> Prefix4(toks[i])]), 24)

IsSubstring(a, b) ==
    \E i \in 0..(Len(b) - Len(a)) : SubSeq(b, i + 1, i + Len(a)) = a

prefix_or_contains(a_name, b_name) ==
    LET a == normalize_team(a_name)
        b == normalize_team(b_name)
    IN  /\ a # <<>>
        /\ b # <<>>
        /\ (a = b \/ IsSubstring(a, b) \/ IsSubstring(b, a))

\* re.search(r"[a-z0-9]", t)
IsAlnum(c) == CodePoint(c) >= CodePoint("0")

significant_tokens(tokset) ==
    {t \in tokset : Len(t) >= 3 /\ \E i \in 1..Len(t) : IsAlnum(t[i])}

is_token_subset(a, b) ==
    LET A == significant_tokens(a)
        B == significant_tokens(b)
    IN  A # {} /\ A \subseteq B

team_char_score(a_name, b_name) ==
    LET a == normalize_team(a_name)
        b == normalize_team(b_name)
        ng_a == _ngrams(a, 3)
        ng_b == _ngrams(b, 3)
        ng_score == IF ng_a # {} /\ ng_b # {}
                    THEN Rat(Cardinality(ng_a \cap ng_b), Cardinality(ng_a \cup ng_b))
                    ELSE RZero
        fz == fuzzy(a, b)
        sig_sim == fuzzy(team_signature(a), team_signature(b))
        base == RAdd(RAdd(RMul(<<1, 2>>, ng_score), RMul(<<2, 5>>, fz)),
                     RMul(<<1, 10>>, sig_sim))
    IN  IF prefix_or_contains(a_name, b_name)
        THEN RMin(ROne, RAdd(base, <<3, 25>>))
        ELSE base

\* "Al" exception
has_al(name) ==
    LET n == normalize_team(name)
        L == Len(n)
    IN  \/ /\ L >= 2
           /\ SubSeq(n, 1, 2) = <<"a", "l">>
           /\ (L = 2 \/ n[3] \in {" ", "-"})
        \/ \E i \in 1..(L - 1) :
              /\ SubSeq(n, i, i + 1) = <<"a", "l">>
              /\ (i = 1 \/ ~IsWordChar(n[i - 1]))
              /\ (i + 1 = L \/ ~IsWordChar(n[i + 2]))

\* Mutant: the guard looks at the first name only.
al_enforced_equal_first_only(a_name, b_name) ==
    IF has_al(a_name)
    THEN normalize_team(a_name) = normalize_team(b_name)
    ELSE TRUE

al_enforced_equal(a_name, b_name) ==
    IF has_al(a_name) \/ has_al(b_name)
    THEN normalize_team(a_name) = normalize_team(b_name)
    ELSE TRUE

_side_score(nameA, nameB) ==
    LET toksA == team_tokens(nameA)
        toksB == team_tokens(nameB)
        tok == RMax(token_jaccard(toksA, toksB), token_dice(toksA, toksB))
        bonus1 == IF is_token_subset(toksA, toksB) \/ is_token_subset(toksB, toksA)
                  THEN <<1, 5>> ELSE RZero
        bonus2 == IF prefix_or_contains(nameA, nameB) THEN <<1, 10>> ELSE RZero
        subset_bonus == RMin(RAdd(bonus1, bonus2), <<1, 4>>)
        ch == team_char_score(nameA, nameB)
        w_tok == IF toksA \cap toksB # {} THEN <<11, 20>> ELSE <<2, 5>>
        base == RAdd(RMul(w_tok, tok), RMul(RSub(ROne, w_tok), ch))
    IN  RMin(ROne, RAdd(base, subset_bonus))


(***************************************************************************)
(* League tokens, kickoff times and the pair gate _match_ok.               *)
(***************************************************************************)
LeagueToSpace(c) == IF c \in {"-", "/", "(", ")"} THEN " " ELSE c

LeagueStop ==
    { <<"l","i","g","a">>, <<"l","e","a","g","u","e">>,
      <<"d","i","v","i","s","i","o","n">>, <<"d","i","v","i","s","o","n">>,
      <<"a","p","e","r","t","u","r","a">>, <<"c","l","a","u","s","u","r","a">>,
      <<"s","e","r","i","j","a">>, <<"s","e","r","i","e">>,
      <<"p","r","e","m","i","e","r">>, <<"p","r","v","a">>, <<"d","r","u","g","a">>,
      <<"c","h","a","m","p","i","o","n","s","h","i","p">>, <<"c","u","p">>,
      <<"w","o","m","e","n">>, <<"w">>, <<"m","x">>, <<"l","a">>, <<"d","e">>,
      <<"e","l">> }

league_tokens(league) ==
    IF league = <<>> THEN {}
    ELSE LET s0 == StripAccentsSeq(LowerSeq(league))
             s1 == CollapseSpaces([i \in 1..Len(s0) |-> LeagueToSpace(s0[i])], TRUE)
             toks == {t \in SeqRange(SplitWords(s1, <<>>)) : Len(t) >= 2}
         IN  toks \ LeagueStop

None == -1

\* A time is <<HH, MM>>; anything else does not match the HH:MM pattern.
_time_to_minutes(t) ==
    IF Len(t) = 2 /\ t[1] \in 0..23 /\ t[2] \in 0..59
    THEN t[1] * 60 + t[2]
    ELSE None

\* Mutant: the tolerance bound is exclusive.
times_close_exclusive(t1, t2, tolerance_min) ==
    LET m1 == _time_to_minutes(t1)
        m2 == _time_to_minutes(t2)
    IN  IF m1 = None \/ m2 = None THEN FALSE
        ELSE Abs(m1 - m2) < tolerance_min

_times_close(t1, t2, tolerance_min) ==
    LET m1 == _time_to_minutes(t1)
        m2 == _time_to_minutes(t2)
    IN  IF m1 = None \/ m2 = None THEN FALSE
        ELSE Abs(m1 - m2) <= tolerance_min

_time_factor(t1, t2) ==
    LET m1 == _time_to_minutes(t1)
        m2 == _time_to_minutes(t2)
        dt == Abs(m1 - m2)
    IN  IF m1 = None \/ m2 = None THEN <<9, 10>>
        ELSE IF dt <= 5 THEN <<1, 1>>
        ELSE IF dt <= 10 THEN <<97, 100>>
        ELSE IF dt <= 20 THEN <<23, 25>>
        ELSE RZero

\* The names the model's records use; _side_score and fuzzy are tabulated over
\* them once.
NamePool ==
    { <<"A","l"," ","A","h","l","y">>, <<"A","l","-","A","h","l","y">>,
      <<"A","l"," ","I","t","t","i","h","a","d">>, <<"A","h","l","y">>,
      <<"R","o","m","a">>, <<"M","i","l","a">>, <<"M","i","l","a","n">>,
      <<"R","e'","a">>, <<"R","e","a","l"," ","B">>,
      <<"R","o","m","a"," ","(","B",")">>, <<"A","b"," ","C">>, <<"A","b","c">>,
      <<"X","y"," ","Z">>, <<"X","y","z">>,
      <<"D","u","n","d","e","e">>,
      <<"D","u","n","d","e","e"," ","U","n","i","t","e","d">>,
      <<"P","o","r","t","o">> }

side_score_table == [x \in NamePool |-> [y \in NamePool |-> _side_score(x, y)]]
SideScore(nameA, nameB) == side_score_table[nameA][nameB]

fuzzy_table ==
    [x \in NamePool |-> [y \in NamePool |-> fuzzy(normalize_team(x), normalize_team(y))]]
FuzzyNorm(nameA, nameB) == fuzzy_table[nameA][nameB]

al_table == [x \in NamePool |-> [y \in NamePool |-> al_enforced_equal(x, y)]]
AlEqual(nameA, nameB) == al_table[nameA][nameB]

Half(x) == RMul(x, <<1, 2>>)

\* Mutant: the fuzzy-ratio threshold raised to 0.90.
team_threshold_raised == <<9, 10>>
team_threshold == <<41, 50>>
base_threshold == <<53, 100>>

LeagueSig(lg) == Prefix(Concat(SortedSeq(lg)), 24)

\* _match_ok as <<line of the return statement taken, value returned>>, reading
\* the side scores, fuzzy ratios and al guards of the names from the tables
\* ss, fzt and alt.
match_ok_tab(ss, fzt, alt, a, b) ==
    IF ~_times_close(a.time, b.time, 20) THEN <<305, FALSE>>
    ELSE LET tf == _time_factor(a.time, b.time)
             lg1 == league_tokens(a.league)
             lg2 == league_tokens(b.league)
             straight_al == alt[a.home][b.home] /\ alt[a.away][b.away]
             swap_al == alt[a.home][b.away] /\ alt[a.away][b.home]
             straight == IF straight_al
                         THEN Half(RAdd(ss[a.home][b.home], ss[a.away][b.away]))
                         ELSE <<-1, 1>>
             swap == IF swap_al
                     THEN Half(RAdd(ss[a.home][b.away], ss[a.away][b.home]))
                     ELSE <<-1, 1>>
             base == RMax(straight, swap)
             final_score == RMul(base, tf)
             fz == IF RGe(straight, swap) /\ straight_al
                   THEN Half(RAdd(fzt[a.home][b.home], fzt[a.away][b.away]))
                   ELSE IF swap_al
                   THEN Half(RAdd(fzt[a.home][b.away], fzt[a.away][b.home]))
                   ELSE RZero
         IN  IF tf = RZero THEN <<308, FALSE>>
             ELSE IF /\ lg1 # {} /\ lg2 # {} /\ lg1 \cap lg2 = {}
                     /\ RLt(fuzzy(LeagueSig(lg1), LeagueSig(lg2)), <<1, 2>>)
                  THEN <<316, FALSE>>
             ELSE IF ~(straight_al \/ swap_al) THEN <<321, FALSE>>
             ELSE IF RLt(base, RZero) THEN <<332, FALSE>>
             ELSE IF RGe(final_score, base_threshold) THEN <<337, TRUE>>
             ELSE <<347, RGe(fz, team_threshold) /\ RGe(tf, <<23, 25>>)>>

match_ok_return(a, b) == match_ok_tab(side_score_table, fuzzy_table, al_table, a, b)

_match_ok(a, b) == match_ok_return(a, b)[2]


(***************************************************************************)
(* State.  Three specifications share the variables: SpecMatch applies     *)
(* _match_ok to a pair of records, SpecCluster runs cluster_all_sources on *)
(* a batch, SpecReport runs one iteration of write_arbitrage_report's loop *)
(* on a cluster.  pc is the position in the code being run.                *)
(***************************************************************************)
VARIABLES pc,
          \* _match_ok: the two records and <<line returned from, value>>
          rec_a, rec_b, ret,
          \* cluster_all_sources: its argument and locals.  Records are numbered
          \* from 1 (Python's index plus one); idxs[ii], idxs[jj] is the pair the
          \* loop of lines 362-371 is at, in bucket number bk; loop_i is the i of
          \* the loop of line 375 and deque_q the deque q.
          records, buckets, adj, bk, ii, jj, seen, clusters, loop_i, deque_q, comp,
          \* write_arbitrage_report: the cluster cl the loop of line 716 is at,
          \* its locals and the text written to REPORT_ARB, one element of out
          \* for the block of lines of a reported cluster.
          cl, by_src_raw, best_1x2, sb3, best_ou, sb2, total_found, out, REPORT_ARB,
          \* proba.py, the grouping loop of main: the rows of df_all, numbered
          \* from 1, the locals match_groups, used and group, and the row
          \* numbers row_i and row_j the two loops are at.
          df_all, match_groups, used, group, row_i, row_j,
          \* run_all.py, wait_for_file_stable: the file at path as the other
          \* processes leave it (path_size is its st_size, None when it does
          \* not exist), whether the clock has passed deadline, max_stable_wait
          \* and size_deadline, the locals last_size and stable_count, the
          \* value returned, and two history variables: the sizes the loop of
          \* line 158 has read and the number of changes made to the file.
          path_size, past_deadline, past_max_stable, past_size_deadline,
          last_size, stable_count, wfs_ret, reads, changes,
          \* run_all.py, main_loop and one_cycle: the mode, cycle_count, and of
          \* the cycle that is running or has last run: the scrapers whose
          \* script exists, the process of each (proc), the number of futures
          \* submitted, the stability check of each output file, the value
          \* run_main returned, what line 394 and the call of line 396 found,
          \* whether run_scrapers_parallel has returned, git_push_file and
          \* write_timestamped_report have been called, and the exception that
          \* one_cycle raised.
          CONTINUOUS_MODE, cycle_count, scrapers_to_run, proc, futures, stability,
          main_ret, target_exists, target_stable, scrapers_done, pushed,
          report_written, raised

match_vars == <<rec_a, rec_b, ret>>
cluster_vars ==
    <<records, buckets, adj, bk, ii, jj, seen, clusters, loop_i, deque_q, comp>>
report_vars == <<cl, by_src_raw, best_1x2, sb3, best_ou, sb2, total_found, out, REPORT_ARB>>
group_vars == <<df_all, match_groups, used, group, row_i, row_j>>
stable_vars ==
    <<path_size, past_deadline, past_max_stable, past_size_deadline,
      last_size, stable_count, wfs_ret, reads, changes>>
main_py_vars == <<match_vars, cluster_vars, report_vars>>
cycle_vars ==
    <<scrapers_to_run, proc, futures, stability, main_ret, target_exists,
      target_stable, scrapers_done, pushed, report_written, raised>>
loop_vars == <<CONTINUOUS_MODE, cycle_count, cycle_vars>>
run_all_vars == <<stable_vars, loop_vars>>
other_vars == <<group_vars, run_all_vars>>
vars == <<pc, match_vars, cluster_vars, report_vars, other_vars>>

\* The variables of an operation that is not running.
MatchIdle == rec_a = <<>> /\ rec_b = <<>> /\ ret = <<>>
ClusterIdle ==
    /\ records = <<>> /\ buckets = <<>> /\ adj = <<>>
    /\ bk = 0 /\ ii = 0 /\ jj = 0
    /\ seen = <<>> /\ clusters = <<>> /\ loop_i = 0 /\ deque_q = <<>> /\ comp = <<>>
ReportIdle ==
    /\ cl = <<>> /\ by_src_raw = <<>> /\ best_1x2 = <<>> /\ sb3 = <<>>
    /\ best_ou = <<>> /\ sb2 = <<>> /\ total_found = 0 /\ out = <<>> /\ REPORT_ARB = <<>>
GroupIdle ==
    /\ df_all = <<>> /\ match_groups = <<>> /\ used = {} /\ group = <<>>
    /\ row_i = 0 /\ row_j = 0
StableIdle ==
    /\ path_size = None /\ past_deadline = FALSE /\ past_max_stable = FALSE
    /\ past_size_deadline = FALSE /\ last_size = None /\ stable_count = 0
    /\ wfs_ret = FALSE /\ reads = <<>> /\ changes = 0
MainPyIdle == MatchIdle /\ ClusterIdle /\ ReportIdle
LoopIdle ==
    /\ CONTINUOUS_MODE = FALSE /\ cycle_count = 0 /\ scrapers_to_run = {}
    /\ proc = <<>> /\ futures = 0 /\ stability = <<>> /\ main_ret = <<>>
    /\ target_exists = FALSE /\ target_stable = FALSE /\ scrapers_done = FALSE
    /\ pushed = FALSE /\ report_written = FALSE /\ raised = "none"
RunAllIdle == StableIdle /\ LoopIdle
OtherIdle == GroupIdle /\ RunAllIdle

\* <<home, away>> as the sources spell them.
TeamPool ==
    { <<<<"A","l"," ","A","h","l","y">>, <<"R","o","m","a">>>>,
      <<<<"A","l","-","A","h","l","y">>, <<"R","o","m","a">>>>,
      <<<<"R","o","m","a">>, <<"A","l"," ","A","h","l","y">>>>,
      <<<<"A","l"," ","I","t","t","i","h","a","d">>, <<"R","o","m","a">>>>,
      <<<<"A","h","l","y">>, <<"R","o","m","a">>>>,
      <<<<"M","i","l","a">>, <<"R","e'","a">>>>,
      <<<<"M","i","l","a","n">>, <<"R","e","a","l"," ","B">>>>,
      <<<<"M","i","l","a","n">>, <<"R","o","m","a"," ","(","B",")">>>>,
      <<<<"M","i","l","a">>, <<"R","e","a","l"," ","B">>>>,
      <<<<"R","e","a","l"," ","B">>, <<"M","i","l","a","n">>>>,
      <<<<"A","b"," ","C">>, <<"X","y"," ","Z">>>>,
      <<<<"A","b","c">>, <<"X","y","z">>>>,
      <<<<"M","i","l","a","n">>, <<"P","o","r","t","o">>>> }

TimePool == {<<20, 0>>, <<20, 4>>, <<20, 5>>, <<20, 8>>, <<20, 11>>, <<20, 20>>, <<20, 25>>, <<>>}

LeaguePool == {<<>>, <<"I","t","a">>, <<"E","s","p">>, <<"L","i","g","a">>}

MatchRecords ==
    { [time |-> t, league |-> l, home |-> p[1], away |-> p[2]] :
        t \in TimePool, l \in LeaguePool, p \in TeamPool }

NoRet == <<0, FALSE>>

MatchInit ==
    /\ pc = "match_ok"
    /\ rec_a \in MatchRecords
    /\ rec_b \in MatchRecords
    /\ ret = NoRet
    /\ ClusterIdle
    /\ ReportIdle
    /\ OtherIdle

\* _match_ok(a, b)
MatchOk ==
    /\ pc = "match_ok"
    /\ ret' = match_ok_return(rec_a, rec_b)
    /\ pc' = "returned"
    /\ UNCHANGED <<rec_a, rec_b, cluster_vars, report_vars, other_vars>>

MatchNext == MatchOk

SpecMatch == MatchInit /\ [][MatchNext]_vars


(***************************************************************************)
(* Claims about _match_ok, checked under SpecMatch.                        *)
(***************************************************************************)
Returned == pc = "returned"

ValidHHMM(t) == t \in (0..23) \X (0..59)
KickoffDiff(t1, t2) == Abs((t1[1] * 60 + t1[2]) - (t2[1] * 60 + t2[2]))
BothTimesValid == ValidHHMM(rec_a.time) /\ ValidHHMM(rec_b.time)
SameTeams == rec_a.home = rec_b.home /\ rec_a.away = rec_b.away

HasStandaloneAl(name) == <<"a", "l">> \in SeqRange(SplitWords(normalize_team(name), <<>>))

LegHolds(x, y) ==
    (HasStandaloneAl(x) \/ HasStandaloneAl(y)) => normalize_team(x) = normalize_team(y)

AlAhly == <<"A","l"," ","A","h","l","y">>
AlIttihad == <<"A","l"," ","I","t","t","i","h","a","d">>

\* C8: whenever _match_ok returns true, the straight or the swapped orientation
\* has exactly equal normalized names on every leg where a name contains the
\* standalone token "al"; "Al Ahly" against "Al Ittihad" never passes a leg.
C8_AlGuard ==
    (Returned /\ ret[2]) =>
        /\ \/ LegHolds(rec_a.home, rec_b.home) /\ LegHolds(rec_a.away, rec_b.away)
           \/ LegHolds(rec_a.home, rec_b.away) /\ LegHolds(rec_a.away, rec_b.home)
        /\ ~(rec_a.home = AlAhly /\ rec_b.home = AlIttihad /\ rec_a.away = rec_b.away)

\* An accepted pair with an "al" leg whose two spellings differ before normalization.
C8_Witness ==
    /\ Returned
    /\ ret[2]
    /\ HasStandaloneAl(rec_a.home)
    /\ rec_a.home # rec_b.home
    /\ normalize_team(rec_a.home) = normalize_team(rec_b.home)

\* C9: _match_ok returns false when the kickoff times differ by more than 20
\* minutes or one is not a valid HH:MM; the time gate (the returns of lines 305
\* and 308) never rejects a pair at most 20 minutes apart; identical names at
\* 20:00 and 20:25 are not linked, at 20:00 and 20:08 they are.
C9_TimeGate ==
    Returned =>
        /\ (~BothTimesValid \/ KickoffDiff(rec_a.time, rec_b.time) > 20) => ~ret[2]
        /\ (BothTimesValid /\ KickoffDiff(rec_a.time, rec_b.time) <= 20)
               => ret[1] \notin {305, 308}
        /\ (SameTeams /\ rec_a.league = rec_b.league
               /\ rec_a.time = <<20, 0>> /\ rec_b.time = <<20, 8>>) => ret[2]
        /\ (SameTeams /\ rec_a.time = <<20, 0>> /\ rec_b.time = <<20, 25>>) => ~ret[2]

\* Identical teams 25 minutes apart, rejected by the time gate.
C9_Witness ==
    /\ Returned
    /\ SameTeams
    /\ rec_a.time = <<20, 0>>
    /\ rec_b.time = <<20, 25>>
    /\ ret = <<305, FALSE>>

Decay(dt) == IF dt <= 5 THEN <<1, 1>> ELSE IF dt <= 10 THEN <<97, 100>> ELSE <<23, 25>>

StraightEligible == AlEqual(rec_a.home, rec_b.home) /\ AlEqual(rec_a.away, rec_b.away)
SwapEligible == AlEqual(rec_a.home, rec_b.away) /\ AlEqual(rec_a.away, rec_b.home)
StraightAvg == Half(RAdd(SideScore(rec_a.home, rec_b.home), SideScore(rec_a.away, rec_b.away)))
SwapAvg == Half(RAdd(SideScore(rec_a.home, rec_b.away), SideScore(rec_a.away, rec_b.home)))
StraightWins == StraightEligible /\ (~SwapEligible \/ RGe(StraightAvg, SwapAvg))
BestAvg == IF StraightWins THEN StraightAvg ELSE SwapAvg
WinnerFuzzyAvg ==
    IF StraightWins
    THEN Half(RAdd(FuzzyNorm(rec_a.home, rec_b.home), FuzzyNorm(rec_a.away, rec_b.away)))
    ELSE Half(RAdd(FuzzyNorm(rec_a.home, rec_b.away), FuzzyNorm(rec_a.away, rec_b.home)))
PassedGates == Returned /\ ret[1] \notin {305, 308, 316, 321}

\* C10: a pair that passed the time, league and "al" gates is accepted iff the
\* best eligible orientation average times the time decay is at least 0.53, or
\* the winning orientation's fuzzy-ratio average is at least 0.82 and the decay
\* is at least 0.92; the decay is 1.00 up to 5 minutes, 0.97 up to 10, 0.92 up
\* to 20.
C10_Acceptance ==
    PassedGates =>
        LET decay == Decay(KickoffDiff(rec_a.time, rec_b.time))
        IN  ret[2] <=>
               \/ RGe(RMul(BestAvg, decay), <<53, 100>>)
               \/ RGe(WinnerFuzzyAvg, <<41, 50>>) /\ RGe(decay, <<23, 25>>)

\* A pair accepted by the fuzzy-ratio path alone, its score being under 0.53.
C10_Witness ==
    /\ Returned
    /\ ret = <<347, TRUE>>
    /\ RLt(RMul(BestAvg, Decay(KickoffDiff(rec_a.time, rec_b.time))), <<53, 100>>)

BothLeagueTexts == rec_a.league # <<>> /\ rec_b.league # <<>>
LeaguesCompatible ==
    \/ league_tokens(rec_a.league) \cap league_tokens(rec_b.league) # {}
    \/ RGe(fuzzy(LeagueSig(league_tokens(rec_a.league)),
                 LeagueSig(league_tokens(rec_b.league))), <<1, 2>>)

\* C11: when both records carry non-empty league text, _match_ok returns false
\* unless the league token sets intersect or the sorted-token signatures are at
\* least 0.50 similar, also when a league text has only generic words.
C11_LeagueGate ==
    (Returned /\ BothLeagueTexts /\ ~LeaguesCompatible) => ~ret[2]

\* C23: the token set team_tokens gives for a team name of a record has no
\* stopword and no token shorter than 2 characters.
C23_TokensFiltered ==
    Returned =>
        \A name \in {rec_a.home, rec_a.away, rec_b.home, rec_b.away} :
            \A t \in team_tokens(name) : t \notin _STOPWORDS /\ Len(t) >= 2

\* C12: _side_score is symmetric on every pair of names _match_ok compares,
\* a name of the first record against a name of the second.
C12_SideScoreSymmetric ==
    Returned =>
        \A x \in {rec_a.home, rec_a.away}, y \in {rec_b.home, rec_b.away} :
            SideScore(x, y) = SideScore(y, x)


(***************************************************************************)
(* cluster_all_sources, one step per loop iteration.                       *)
(***************************************************************************)
\* Mutant: buckets of 20 minutes.
bucket_key_wide(t) ==
    IF _time_to_minutes(t) = None THEN None ELSE _time_to_minutes(t) \div 20

\* The key "none" is None.
bucket_key(t) ==
    IF _time_to_minutes(t) = None THEN None ELSE _time_to_minutes(t) \div 10

\* buckets[key].append(idx) on a dict kept as the sequence of its <<key, list>>
\* items in insertion order
bucket_append(bs, key, idx) ==
    IF \E k \in 1..Len(bs) : bs[k][1] = key
    THEN [k \in 1..Len(bs) |->
            IF bs[k][1] = key THEN <<key, Append(bs[k][2], idx)>> ELSE bs[k]]
    ELSE Append(bs, <<key, <<idx>>>>)

RECURSIVE build_buckets(_, _, _)
build_buckets(recs, idx, bs) ==
    IF idx > Len(recs) THEN bs
    ELSE build_buckets(recs, idx + 1,
                       bucket_append(bs, bucket_key(recs[idx].time), idx))

\* The position <<bucket, ii, jj>> of the next pair at or after <<b0, i0, j0>>,
\* <<Len(bs) + 1, 1, 2>> when the loops of lines 362-371 are over.
RECURSIVE next_pair(_, _, _, _)
next_pair(bs, b0, i0, j0) ==
    IF b0 > Len(bs) THEN <<Len(bs) + 1, 1, 2>>
    ELSE IF i0 > Len(bs[b0][2]) THEN next_pair(bs, b0 + 1, 1, 2)
    ELSE IF j0 > Len(bs[b0][2]) THEN next_pair(bs, b0, i0 + 1, i0 + 2)
    ELSE <<b0, i0, j0>>

\* Mutant: only the first neighbour is looked at.
visit_first_only(vs, sn, qu, cp) ==
    IF vs = <<>> THEN <<sn, qu, cp>>
    ELSE IF ~sn[Head(vs)]
         THEN <<[sn EXCEPT ![Head(vs)] = TRUE], Append(qu, Head(vs)), Append(cp, Head(vs))>>
         ELSE <<sn, qu, cp>>

\* for v in adj[u]: mark, enqueue and collect the unseen ones.
RECURSIVE visit(_, _, _, _)
visit(vs, sn, qu, cp) ==
    IF vs = <<>> THEN <<sn, qu, cp>>
    ELSE IF ~sn[Head(vs)]
         THEN visit(Tail(vs), [sn EXCEPT ![Head(vs)] = TRUE],
                    Append(qu, Head(vs)), Append(cp, Head(vs)))
         ELSE visit(Tail(vs), sn, qu, cp)

\* Mutant: the loop of line 375 starts a component at every index.
already_seen_never(sn, idx) == FALSE

\* if seen[i]: continue
already_seen(sn, idx) == sn[idx]

\* while q (lines 378-384) on the adjacency lists ad: <<seen, comp>> at its end
RECURSIVE bfs(_, _, _, _)
bfs(ad, sn, qu, cp) ==
    IF qu = <<>> THEN <<sn, cp>>
    ELSE bfs(ad, visit(ad[Head(qu)], sn, Tail(qu), cp)[1],
                 visit(ad[Head(qu)], sn, Tail(qu), cp)[2],
                 visit(ad[Head(qu)], sn, Tail(qu), cp)[3])

\* The loop of lines 375-385 taking the start indices in the given order (the
\* code's is range(n)): the clusters as lists of indices
RECURSIVE scan(_, _, _, _)
scan(ad, order, sn, cls) ==
    IF order = <<>> THEN cls
    ELSE IF already_seen(sn, Head(order)) THEN scan(ad, Tail(order), sn, cls)
    ELSE scan(ad, Tail(order),
              bfs(ad, [sn EXCEPT ![Head(order)] = TRUE], <<Head(order)>>, <<Head(order)>>)[1],
              Append(cls, bfs(ad, [sn EXCEPT ![Head(order)] = TRUE],
                              <<Head(order)>>, <<Head(order)>>)[2]))

MaxRecords == 3

ClusterTeams ==
    { <<<<"M","i","l","a">>, <<"R","e'","a">>>>,
      <<<<"M","i","l","a","n">>, <<"R","e","a","l"," ","B">>>>,
      <<<<"M","i","l","a","n">>, <<"R","o","m","a"," ","(","B",")">>>>,
      <<<<"A","l"," ","A","h","l","y">>, <<"R","o","m","a">>>>,
      <<<<"R","o","m","a">>, <<"A","l","-","A","h","l","y">>>> }

ClusterTimes == {<<20, 0>>, <<20, 8>>, <<20, 11>>, <<>>}

ClusterRecords ==
    { [time |-> t, league |-> <<>>, home |-> p[1], away |-> p[2]] :
        t \in ClusterTimes, p \in ClusterTeams }

ClusterInit ==
    /\ pc = "cluster_all_sources"
    /\ \E len \in 0..MaxRecords : records \in [1..len -> ClusterRecords]
    /\ buckets = <<>> /\ adj = <<>>
    /\ bk = 0 /\ ii = 0 /\ jj = 0
    /\ seen = <<>> /\ clusters = <<>> /\ loop_i = 0 /\ deque_q = <<>> /\ comp = <<>>
    /\ MatchIdle
    /\ ReportIdle
    /\ OtherIdle

\* lines 350-360: adj and the buckets
Bucketing ==
    /\ pc = "cluster_all_sources"
    /\ adj' = [k \in 1..Len(records) |-> <<>>]
    /\ buckets' = build_buckets(records, 1, <<>>)
    /\ LET np == next_pair(build_buckets(records, 1, <<>>), 1, 1, 2)
       IN  bk' = np[1] /\ ii' = np[2] /\ jj' = np[3]
    /\ pc' = "pairs"
    /\ UNCHANGED <<records, seen, clusters, loop_i, deque_q, comp, match_vars, report_vars, other_vars>>

\* lines 365-371: one pair of a bucket
PairStep ==
    /\ pc = "pairs"
    /\ bk <= Len(buckets)
    /\ adj' = IF _match_ok(records[buckets[bk][2][ii]], records[buckets[bk][2][jj]])
              THEN [adj EXCEPT ![buckets[bk][2][ii]] = Append(@, buckets[bk][2][jj]),
                               ![buckets[bk][2][jj]] = Append(@, buckets[bk][2][ii])]
              ELSE adj
    /\ LET np == next_pair(buckets, bk, ii, jj + 1)
       IN  bk' = np[1] /\ ii' = np[2] /\ jj' = np[3]
    /\ UNCHANGED <<pc, records, buckets, seen, clusters, loop_i, deque_q, comp, match_vars, report_vars, other_vars>>

\* lines 373-374, once the buckets are exhausted
PairsDone ==
    /\ pc = "pairs"
    /\ bk > Len(buckets)
    /\ seen' = [k \in 1..Len(records) |-> FALSE]
    /\ clusters' = <<>>
    /\ loop_i' = 1
    /\ pc' = "scan"
    /\ UNCHANGED <<records, buckets, adj, bk, ii, jj, deque_q, comp, match_vars, report_vars, other_vars>>

\* line 376: if seen[i]: continue
ScanSkip ==
    /\ pc = "scan"
    /\ loop_i <= Len(records)
    /\ already_seen(seen, loop_i)
    /\ loop_i' = loop_i + 1
    /\ UNCHANGED <<pc, records, buckets, adj, bk, ii, jj, seen, clusters, deque_q, comp,
                   match_vars, report_vars, other_vars>>

\* line 377: a new component
ScanStart ==
    /\ pc = "scan"
    /\ loop_i <= Len(records)
    /\ ~already_seen(seen, loop_i)
    /\ deque_q' = <<loop_i>>
    /\ seen' = [seen EXCEPT ![loop_i] = TRUE]
    /\ comp' = <<loop_i>>
    /\ pc' = "bfs"
    /\ UNCHANGED <<records, buckets, adj, bk, ii, jj, clusters, loop_i, match_vars, report_vars, other_vars>>

\* lines 378-384: one iteration of while q
BfsPop ==
    /\ pc = "bfs"
    /\ deque_q # <<>>
    /\ LET res == visit(adj[Head(deque_q)], seen, Tail(deque_q), comp)
       IN  seen' = res[1] /\ deque_q' = res[2] /\ comp' = res[3]
    /\ UNCHANGED <<pc, records, buckets, adj, bk, ii, jj, clusters, loop_i, match_vars, report_vars, other_vars>>

\* line 385: the component is complete
BfsClose ==
    /\ pc = "bfs"
    /\ deque_q = <<>>
    /\ clusters' = Append(clusters, comp)
    /\ loop_i' = loop_i + 1
    /\ pc' = "scan"
    /\ UNCHANGED <<records, buckets, adj, bk, ii, jj, seen, deque_q, comp, match_vars, report_vars, other_vars>>

\* line 386
ClusterReturn ==
    /\ pc = "scan"
    /\ loop_i > Len(records)
    /\ pc' = "done"
    /\ UNCHANGED <<cluster_vars, match_vars, report_vars, other_vars>>

ClusterNext ==
    \/ Bucketing
    \/ PairStep
    \/ PairsDone
    \/ ScanSkip
    \/ ScanStart
    \/ BfsPop
    \/ BfsClose
    \/ ClusterReturn

SpecCluster == ClusterInit /\ [][ClusterNext]_vars


(***************************************************************************)
(* Claims about cluster_all_sources, checked under SpecCluster.            *)
(***************************************************************************)
ClusterDone == pc = "done"

Indices == 1..Len(records)

\* The places <<cluster, position>> at which index k occurs in the result.
Occurrences(k) ==
    { w \in (1..Len(clusters)) \X Indices :
        w[2] <= Len(clusters[w[1]]) /\ clusters[w[1]][w[2]] = k }

SameCluster(u, v) ==
    \E c \in 1..Len(clusters) : u \in SeqRange(clusters[c]) /\ v \in SeqRange(clusters[c])

TenMinuteBucket(r) ==
    IF r.time \in (0..23) \X (0..59) THEN (r.time[1] * 60 + r.time[2]) \div 10 ELSE None

\* Records u and v are in the same 10-minute bucket and accepted by _match_ok
\* (called, as the code calls it, with the earlier record first).
Linked(u, v) ==
    /\ u # v
    /\ TenMinuteBucket(records[u]) = TenMinuteBucket(records[v])
    /\ IF u < v THEN _match_ok(records[u], records[v])
                ELSE _match_ok(records[v], records[u])

\* The indices a chain of at most steps links leads to from the set S.
RECURSIVE Reach(_, _)
Reach(S, steps) ==
    IF steps = 0 THEN S
    ELSE Reach(S \cup {v \in Indices : \E u \in S : Linked(u, v)}, steps - 1)

Chained(u, v) == v \in Reach({u}, Len(records))

\* C1: the clusters returned partition the input: every record index occurs in
\* exactly one cluster, exactly once, no cluster is empty, and a record that no
\* other record is linked to is a cluster of its own.
C1_Partition ==
    ClusterDone =>
        /\ \A k \in Indices : Cardinality(Occurrences(k)) = 1
        /\ \A c \in 1..Len(clusters) :
              clusters[c] # <<>> /\ SeqRange(clusters[c]) \subseteq Indices
        /\ \A k \in Indices :
              (\A v \in Indices : ~Linked(k, v)) => <<k>> \in SeqRange(clusters)

\* Three records returned as an unmatched singleton and a cluster of two.
C1_Witness ==
    /\ ClusterDone
    /\ Len(records) = 3
    /\ Len(clusters) = 2
    /\ \E k \in Indices : <<k>> \in SeqRange(clusters) /\ \A v \in Indices : ~Linked(k, v)

\* C2: two records are in the same cluster iff a chain of records, each
\* consecutive pair in the same 10-minute bucket and accepted by _match_ok, leads
\* from one to the other.
C2_ChainIffCluster ==
    ClusterDone => \A u, v \in Indices : SameCluster(u, v) <=> Chained(u, v)

\* Two records that _match_ok rejects as a pair share a cluster through a third.
C2_Witness ==
    /\ ClusterDone
    /\ \E u, v \in Indices :
          /\ u # v
          /\ SameCluster(u, v)
          /\ ~_match_ok(records[u], records[v])
          /\ ~_match_ok(records[v], records[u])

\* The clusters as a set of sets of indices.
PartitionOf(cls) == {SeqRange(cls[c]) : c \in 1..Len(cls)}

\* The orders in which the start indices can be taken and in which the
\* adjacency lists can hold their neighbours: every insertion order of the
\* edges gives one of the latter.
StartOrders == {[k \in Indices |-> f[k]] : f \in Permutations(Indices)}
Reorderings(list) == {[k \in 1..Len(list) |-> list[f[k]]] : f \in Permutations(1..Len(list))}
AdjacencyOrders ==
    { ad \in [Indices -> UNION {Reorderings(adj[k]) : k \in Indices}] :
        \A k \in Indices : ad[k] \in Reorderings(adj[k]) }

NothingSeen == [k \in Indices |-> FALSE]

\* C20: the partition returned is the one the traversal yields for every order
\* of the start records and every order of the adjacency lists over the same
\* edges, and running the traversal again gives the same clusters.
C20_OrderIndependent ==
    ClusterDone =>
        /\ \A order \in StartOrders : \A ad \in AdjacencyOrders :
              PartitionOf(scan(ad, order, NothingSeen, <<>>)) = PartitionOf(clusters)
        /\ scan(adj, [k \in Indices |-> k], NothingSeen, <<>>) = clusters

\* Three records in one cluster though two of them are not linked: the record
\* linking them has two neighbours, the others one.
C20_Witness ==
    /\ ClusterDone
    /\ Len(records) = 3
    /\ Len(clusters) = 1
    /\ \E k \in Indices : Len(adj[k]) = 2
    /\ \E k \in Indices : Len(adj[k]) = 1

WithinTolerance(u, v) ==
    /\ ValidHHMM(records[u].time)
    /\ ValidHHMM(records[v].time)
    /\ KickoffDiff(records[u].time, records[v].time) <= 20

\* C21: any two records whose kickoff times differ by at most 20 minutes and
\* which _match_ok accepts are in the same cluster.
C21_AcceptedPairsShareCluster ==
    ClusterDone =>
        \A u, v \in Indices :
            (u < v /\ WithinTolerance(u, v) /\ _match_ok(records[u], records[v]))
                => SameCluster(u, v)

NamesOf(u) == {records[u].home, records[u].away}

OddsKeys == {"1", "X", "2", "0-2", "3+"}
NoOdd == <<>>

SRC_LABEL ==
    [soccer |-> "Soccer", merkur |-> "Merkur", mozzart |-> "Mozzart",
     betole |-> "Betole", meridian |-> "Meridian", balkanbet |-> "BalkanBet"]

\* SRC_LABEL.get(code, code)
src_label(code) == IF code \in DOMAIN SRC_LABEL THEN SRC_LABEL[code] ELSE code

Count(ts, v) == Cardinality({k \in 1..Len(ts) : ts[k] = v})

\* statistics.mode: the most common value, of those the one met first
mode(ts) ==
    ts[CHOOSE k \in 1..Len(ts) :
          /\ \A m \in 1..Len(ts) : Count(ts, ts[m]) <= Count(ts, ts[k])
          /\ \A m \in 1..(k - 1) : Count(ts, ts[m]) < Count(ts, ts[k])]

\* [r.get("time","") for r in cluster if r.get("time")]
RECURSIVE times_of(_)
times_of(cluster) ==
    IF cluster = <<>> THEN <<>>
    ELSE (IF Head(cluster).time # <<>> THEN <<Head(cluster).time>> ELSE <<>>)
         \o times_of(Tail(cluster))

\* [r.get("league","") for r in cl if r.get("league")]
RECURSIVE leagues_of(_)
leagues_of(cluster) ==
    IF cluster = <<>> THEN <<>>
    ELSE (IF Head(cluster).league # <<>> THEN <<Head(cluster).league>> ELSE <<>>)
         \o leagues_of(Tail(cluster))

canonical_time(cluster) ==
    IF times_of(cluster) # <<>> THEN mode(times_of(cluster))
    ELSE IF cluster # <<>> THEN cluster[1].time ELSE <<>>

league_tag(cluster) ==
    IF leagues_of(cluster) # <<>> THEN <<"[">> \o mode(leagues_of(cluster)) \o <<"]">>
    ELSE <<>>

\* Mutant: mozzart ahead of soccer.
canonical_pref_mozzart_first ==
    <<"mozzart", "soccer", "merkur", "meridian", "betole", "balkanbet">>

canonical_pref == <<"soccer", "mozzart", "merkur", "meridian", "betole", "balkanbet">>

SourcesOf(cluster) == {cluster[k].src : k \in 1..Len(cluster)}

\* Mutant: the first record of a source is kept.
first_of_src(cluster, code) ==
    cluster[CHOOSE k \in 1..Len(cluster) :
               /\ cluster[k].src = code
               /\ \A m \in 1..(k - 1) : cluster[m].src # code]

\* by_src = {r["src"]: r for r in cluster} keeps the last record of a source
last_of_src(cluster, code) ==
    cluster[CHOOSE k \in 1..Len(cluster) :
               /\ cluster[k].src = code
               /\ \A m \in (k + 1)..Len(cluster) : cluster[m].src # code]

canonical_pair(cluster) ==
    IF \E k \in 1..Len(canonical_pref) : canonical_pref[k] \in SourcesOf(cluster)
    THEN LET r == last_of_src(cluster,
                     canonical_pref[CHOOSE k \in 1..Len(canonical_pref) :
                         /\ canonical_pref[k] \in SourcesOf(cluster)
                         /\ \A m \in 1..(k - 1) : canonical_pref[m] \notin SourcesOf(cluster)])
         IN  <<r.home, r.away>>
    ELSE <<cluster[1].home, cluster[1].away>>

\* Mutant: any price read from the file counts.
is_plausible_odd_any(x) == x # NoOdd

is_plausible_odd(x) ==
    IF x = NoOdd THEN FALSE
    ELSE RLe(<<101, 100>>, x) /\ RLe(x, <<25, 1>>)

Reciprocal(x) == RDiv(ROne, x)

\* <<ok, S>>
coherent_1x2_for_source(rec) ==
    IF ~(is_plausible_odd(rec.odds["1"]) /\ is_plausible_odd(rec.odds["X"])
           /\ is_plausible_odd(rec.odds["2"]))
    THEN <<FALSE, NoOdd>>
    ELSE LET S == RAdd(RAdd(Reciprocal(rec.odds["1"]), Reciprocal(rec.odds["X"])),
                       Reciprocal(rec.odds["2"]))
         IN  IF RLe(<<19, 20>>, S) /\ RLe(S, <<19, 10>>) THEN <<TRUE, S>> ELSE <<FALSE, S>>

\* Mutant: every source is kept.
filter_sources_keep_all(by_src) == by_src

RECURSIVE filter_sources_for_1x2_best(_)
filter_sources_for_1x2_best(by_src) ==
    IF by_src = <<>> THEN <<>>
    ELSE (IF coherent_1x2_for_source(Head(by_src))[1] THEN <<Head(by_src)>> ELSE <<>>)
         \o filter_sources_for_1x2_best(Tail(by_src))

\* Mutant: equal scores go to swap.
orientation_tab_tie_swaps(ss, alt, rec, canon_home, canon_away) ==
    IF (alt[rec.home][canon_home] /\ alt[rec.away][canon_away])
         /\ ~(alt[rec.home][canon_away] /\ alt[rec.away][canon_home])
    THEN "straight"
    ELSE IF (alt[rec.home][canon_away] /\ alt[rec.away][canon_home])
              /\ ~(alt[rec.home][canon_home] /\ alt[rec.away][canon_away])
    THEN "swap"
    ELSE IF RGt(RAdd(ss[rec.home][canon_home], ss[rec.away][canon_away]),
                RAdd(ss[rec.home][canon_away], ss[rec.away][canon_home]))
    THEN "straight" ELSE "swap"

\* _orientation_vs_canon reading the side scores and al guards of the names
\* from the tables ss and alt.
orientation_tab(ss, alt, rec, canon_home, canon_away) ==
    LET straight_al == alt[rec.home][canon_home] /\ alt[rec.away][canon_away]
        swap_al == alt[rec.home][canon_away] /\ alt[rec.away][canon_home]
        s_st == Half(RAdd(ss[rec.home][canon_home], ss[rec.away][canon_away]))
        s_sw == Half(RAdd(ss[rec.home][canon_away], ss[rec.away][canon_home]))
    IN  IF straight_al /\ ~swap_al THEN "straight"
        ELSE IF swap_al /\ ~straight_al THEN "swap"
        ELSE IF RGe(s_st, s_sw) THEN "straight" ELSE "swap"

_orientation_vs_canon(rec, canon_home, canon_away) ==
    orientation_tab(side_score_table, al_table, rec, canon_home, canon_away)

_swap_1x2_if_needed(odds, orientation) ==
    IF orientation # "swap" THEN odds
    ELSE [odds EXCEPT !["1"] = odds["2"], !["2"] = odds["1"]]

\* Mutant: the number of prices present is left out of the score.
rec_score_coherence_only(rec) ==
    << IF coherent_1x2_for_source(rec)[1] THEN 1 ELSE 0, 0 >>

\* (1 if the 1X2 set is coherent else 0, number of prices present)
_rec_completeness_score(rec) ==
    << IF coherent_1x2_for_source(rec)[1] THEN 1 ELSE 0,
       Cardinality({k \in DOMAIN rec.odds : rec.odds[k] # NoOdd}) >>

\* Python's order of tuples
ScoreLess(x, y) == x[1] < y[1] \/ (x[1] = y[1] /\ x[2] < y[2])

\* per_src[code]
RECURSIVE items_of(_, _)
items_of(cluster, code) ==
    IF cluster = <<>> THEN <<>>
    ELSE (IF Head(cluster).src = code THEN <<Head(cluster)>> ELSE <<>>)
         \o items_of(Tail(cluster), code)

\* sorted(items, key=_rec_completeness_score, reverse=True)[0]: the sort is
\* stable, so the first record with the greatest score
chosen_of(items) ==
    items[CHOOSE k \in 1..Len(items) :
             /\ \A m \in 1..Len(items) :
                   ~ScoreLess(_rec_completeness_score(items[k]),
                              _rec_completeness_score(items[m]))
             /\ \A m \in 1..(k - 1) :
                   ScoreLess(_rec_completeness_score(items[m]),
                             _rec_completeness_score(items[k]))]

\* The keys of per_src in insertion order: the sources in the order in which
\* the cluster first has them.
RECURSIVE sources_in_order(_, _)
sources_in_order(cluster, sofar) ==
    IF cluster = <<>> THEN sofar
    ELSE sources_in_order(Tail(cluster),
             IF Head(cluster).src \in SeqRange(sofar) THEN sofar
             ELSE Append(sofar, Head(cluster).src))

\* Mutant: the record keeps its own home and away.
aligned_record_own_labels(ss, alt, r, canon) ==
    [r EXCEPT !.odds = _swap_1x2_if_needed(r.odds,
                           orientation_tab(ss, alt, r, canon[1], canon[2]))]

\* lines 497-503 for the record r chosen for a source
aligned_record(ss, alt, r, canon) ==
    [r EXCEPT !.home = canon[1], !.away = canon[2],
              !.odds = _swap_1x2_if_needed(r.odds,
                           orientation_tab(ss, alt, r, canon[1], canon[2]))]

aligned_tab(ss, alt, cluster, codes, canon) ==
    [k \in 1..Len(codes) |->
        aligned_record(ss, alt, chosen_of(items_of(cluster, codes[k])), canon)]

aligned_by_src(cluster) ==
    aligned_tab(side_score_table, al_table, cluster,
                sources_in_order(cluster, <<>>), canonical_pair(cluster))

\* Mutant: rr = r in place of rr = dict(r), so that lines 500-502 write into the
\* record chosen for a source.
inputs_after_align_no_copy(cluster, aligned) ==
    [k \in 1..Len(cluster) |->
        IF cluster[k] = chosen_of(items_of(cluster, cluster[k].src))
        THEN aligned[CHOOSE m \in 1..Len(aligned) : aligned[m].src = cluster[k].src]
        ELSE cluster[k]]

\* The records of the cluster once aligned_by_src has returned the mapping
\* aligned: lines 499-502 assign to keys of rr = dict(r) and
\* _swap_1x2_if_needed to keys of new_odds = dict(odds), both fresh dicts, so no
\* record of the cluster is written to.
inputs_after_align(cluster, aligned) == [k \in 1..Len(cluster) |-> cluster[k]]

\* v > best[k][0]
better(v, held) == RGt(v, held)

\* lines 653-662: the scan of the sources, best ranging over the keys
RECURSIVE scan_sources(_, _)
scan_sources(srcs, best) ==
    IF srcs = <<>> THEN best
    ELSE scan_sources(Tail(srcs),
             [k \in DOMAIN best |->
                 IF is_plausible_odd(Head(srcs).odds[k])
                      /\ better(Head(srcs).odds[k], best[k][1])
                 THEN <<Head(srcs).odds[k], src_label(Head(srcs).src)>>
                 ELSE best[k]])

\* line 664
kept_best(best) ==
    [k \in {x \in DOMAIN best : RGt(best[x][1], RZero) /\ best[x][2] # ""} |-> best[k]]

\* Mutant: only coherent sources are scanned, whatever the keys.
best_odds_always_strict(by_src, keys, strict_1x2) ==
    kept_best(scan_sources(filter_sources_for_1x2_best(by_src),
                           [k \in SeqRange(keys) |-> <<RZero, "">>]))

best_odds_for_market(by_src, keys, strict_1x2) ==
    kept_best(scan_sources(
        IF strict_1x2 /\ SeqRange(keys) = {"1", "X", "2"}
        THEN filter_sources_for_1x2_best(by_src) ELSE by_src,
        [k \in SeqRange(keys) |-> <<RZero, "">>]))

\* None
NoSurebet == [none |-> TRUE]

bankroll == <<100, 1>>

\* Mutant: a sum of exactly 1 passes.
sum_too_high_above_one(S) == RGt(S, ROne)

\* if S >= 1.0: return None
sum_too_high(S) == RGe(S, ROne)

\* Mutant: the stake is not scaled by S.
stake_unscaled(p, S) == RDiv(bankroll, p)

\* (bankroll / p) / S
stake(p, S) == RDiv(RDiv(bankroll, p), S)

\* lines 674-688 and 698-710 for the legs need and their reciprocal sum S
surebet_result(best, need, S) ==
    IF sum_too_high(S) THEN NoSurebet
    ELSE [S |-> S,
          profit_pct |-> RMul(RSub(ROne, S), <<100, 1>>),
          bankroll |-> bankroll,
          stakes |-> [k \in SeqRange(need) |->
                         <<stake(best[k][1], S), best[k][2], best[k][1]>>]]

surebet_3way(best) ==
    IF \E k \in {"1", "X", "2"} : k \notin DOMAIN best THEN NoSurebet
    ELSE surebet_result(best, <<"1", "X", "2">>,
             RAdd(RAdd(Reciprocal(best["1"][1]), Reciprocal(best["X"][1])),
                  Reciprocal(best["2"][1])))

surebet_2way(best, under_key, over_key) ==
    IF under_key \notin DOMAIN best \/ over_key \notin DOMAIN best THEN NoSurebet
    ELSE surebet_result(best, <<under_key, over_key>>,
             RAdd(Reciprocal(best[under_key][1]), Reciprocal(best[over_key][1])))


(***************************************************************************)
(* write_arbitrage_report on one cluster, one step per statement of the    *)
(* loop body.  The number formats of the report lines are left out: a      *)
(* reported cluster is the element [time, league, pair, present, sb3, sb2] *)
(* of out.                                                                 *)
(***************************************************************************)
MaxCluster == 2

ReportSources == {"soccer", "mozzart", "merkur"}

\* The fixture the records of a cluster are about.  Records of one fixture at
\* one kickoff time, in either order of the teams, are accepted by _match_ok
\* pairwise, so every cluster drawn is one cluster_all_sources can return.
Fixtures ==
    { <<<<"M","i","l","a","n">>, <<"R","o","m","a">>>>,
      <<<<"D","u","n","d","e","e">>, <<"D","u","n","d","e","e"," ","U","n","i","t","e","d">>>>,
      <<<<"A","l"," ","A","h","l","y">>, <<"R","o","m","a">>>> }

Sheet(p1, pX, p2, under, over) ==
    [k \in OddsKeys |->
        CASE k = "1" -> p1 [] k = "X" -> pX [] k = "2" -> p2
          [] k = "0-2" -> under [] OTHER -> over]

\* Prices as the files give them: 1, X, 2, 0-2, 3+
OddsPool ==
    { Sheet(<<3, 1>>, <<17, 5>>, <<5, 2>>, <<21, 10>>, <<17, 10>>),
      Sheet(<<5, 2>>, <<17, 5>>, <<16, 5>>, <<17, 10>>, <<21, 10>>),
      Sheet(<<3, 2>>, <<31, 20>>, <<8, 5>>, <<21, 10>>, NoOdd),
      Sheet(<<6, 1>>, <<4, 1>>, <<3, 2>>, <<101, 100>>, <<25, 1>>),
      Sheet(<<2, 1>>, <<4, 1>>, <<4, 1>>, <<2, 1>>, NoOdd),
      Sheet(<<4, 1>>, NoOdd, <<30, 1>>, <<5, 2>>, <<26, 1>>),
      Sheet(<<14, 5>>, <<3, 1>>, <<13, 5>>, <<21, 10>>, <<21, 10>>) }

ReportRecords(fixture) ==
    { [src |-> c, home |-> t[1], away |-> t[2], time |-> <<20, 0>>, league |-> <<>>,
       odds |-> o] :
        c \in ReportSources,
        t \in {fixture, <<fixture[2], fixture[1]>>},
        o \in OddsPool }

ReportInit ==
    /\ pc = "write_arbitrage_report"
    /\ \E fixture \in Fixtures : \E len \in 1..MaxCluster :
          cl \in [1..len -> ReportRecords(fixture)]
    /\ by_src_raw = <<>> /\ best_1x2 = <<>> /\ sb3 = <<>>
    /\ best_ou = <<>> /\ sb2 = <<>> /\ total_found = 0 /\ out = <<>> /\ REPORT_ARB = <<>>
    /\ MatchIdle
    /\ ClusterIdle
    /\ OtherIdle

\* line 717
Align ==
    /\ pc = "write_arbitrage_report"
    /\ by_src_raw' = aligned_by_src(cl)
    /\ cl' = inputs_after_align(cl, by_src_raw')
    /\ pc' = "best_1x2"
    /\ UNCHANGED <<best_1x2, sb3, best_ou, sb2, total_found, out, REPORT_ARB,
                   match_vars, cluster_vars, other_vars>>

\* line 724
Best1x2 ==
    /\ pc = "best_1x2"
    /\ best_1x2' = best_odds_for_market(by_src_raw, <<"1", "X", "2">>, TRUE)
    /\ pc' = "sb3"
    /\ UNCHANGED <<cl, by_src_raw, sb3, best_ou, sb2, total_found, out, REPORT_ARB,
                   match_vars, cluster_vars, other_vars>>

\* line 725
Surebet3 ==
    /\ pc = "sb3"
    /\ sb3' = surebet_3way(best_1x2)
    /\ pc' = "best_ou"
    /\ UNCHANGED <<cl, by_src_raw, best_1x2, best_ou, sb2, total_found, out, REPORT_ARB,
                   match_vars, cluster_vars, other_vars>>

\* line 728
BestOu ==
    /\ pc = "best_ou"
    /\ best_ou' = best_odds_for_market(by_src_raw, <<"0-2", "3+">>, FALSE)
    /\ pc' = "sb2"
    /\ UNCHANGED <<cl, by_src_raw, best_1x2, sb3, sb2, total_found, out, REPORT_ARB,
                   match_vars, cluster_vars, other_vars>>

\* line 729
Surebet2 ==
    /\ pc = "sb2"
    /\ sb2' = surebet_2way(best_ou, "0-2", "3+")
    /\ pc' = "emit"
    /\ UNCHANGED <<cl, by_src_raw, best_1x2, sb3, best_ou, total_found, out, REPORT_ARB,
                   match_vars, cluster_vars, other_vars>>

\* lines 731-732: nothing to report for the cluster
SkipCluster ==
    /\ pc = "emit"
    /\ sb3 = NoSurebet /\ sb2 = NoSurebet
    /\ pc' = "loop_end"
    /\ UNCHANGED <<report_vars, match_vars, cluster_vars, other_vars>>

\* lines 734-762
Emit ==
    /\ pc = "emit"
    /\ ~(sb3 = NoSurebet /\ sb2 = NoSurebet)
    /\ total_found' = total_found + 1
    /\ out' = Append(out, [time |-> canonical_time(cl),
                           league |-> league_tag(cl),
                           pair |-> canonical_pair(cl),
                           present |-> [k \in 1..Len(cl) |-> SRC_LABEL[cl[k].src]],
                           sb3 |-> sb3,
                           sb2 |-> sb2])
    /\ pc' = "loop_end"
    /\ UNCHANGED <<cl, by_src_raw, best_1x2, sb3, best_ou, sb2, REPORT_ARB,
                   match_vars, cluster_vars, other_vars>>

\* lines 764-766
WriteReport ==
    /\ pc = "loop_end"
    /\ REPORT_ARB' = IF total_found = 0 THEN <<"Nisu pronadjene arbitrazne prilike">> ELSE out
    /\ pc' = "written"
    /\ UNCHANGED <<cl, by_src_raw, best_1x2, sb3, best_ou, sb2, total_found, out,
                   match_vars, cluster_vars, other_vars>>

ReportNext ==
    \/ Align
    \/ Best1x2
    \/ Surebet3
    \/ BestOu
    \/ Surebet2
    \/ SkipCluster
    \/ Emit
    \/ WriteReport

SpecReport == ReportInit /\ [][ReportNext]_vars


(***************************************************************************)
(* Claims about alignment, best odds and surebets, checked under           *)
(* SpecReport.                                                             *)
(***************************************************************************)
\* The state right after a local of the loop body is assigned; no later step
\* changes it.
Aligned == pc = "best_1x2"
Best1x2Known == pc = "sb3"
Sb3Known == pc = "best_ou"
BestOuKnown == pc = "sb2"
Sb2Known == pc = "emit"

Legs1x2 == <<"1", "X", "2">>
LegsOu == <<"0-2", "3+">>

RECURSIVE SumReciprocals(_)
SumReciprocals(prices) ==
    IF prices = <<>> THEN RZero
    ELSE RAdd(RDiv(ROne, Head(prices)), SumReciprocals(Tail(prices)))

BestPrices(bst, legs) == [k \in 1..Len(legs) |-> bst[legs[k]][1]]

HasLegs(bst, legs) == SeqRange(legs) \subseteq DOMAIN bst

OpportunityIff(sb, bst, legs) ==
    (sb # NoSurebet) <=>
        (HasLegs(bst, legs) /\ RLt(SumReciprocals(BestPrices(bst, legs)), ROne))

\* C3: surebet_3way and surebet_2way return an opportunity iff every leg is in
\* the best-odds mapping and the sum of the reciprocals of the leg prices is
\* below 1; a sum of 1 or more gives none.
C3_OpportunityIffSumBelowOne ==
    /\ Sb3Known => OpportunityIff(sb3, best_1x2, Legs1x2)
    /\ Sb2Known => OpportunityIff(sb2, best_ou, LegsOu)

\* Best prices 2, 4, 4 sum to exactly 1 and no opportunity is returned.
C3_Witness ==
    /\ Sb3Known
    /\ HasLegs(best_1x2, Legs1x2)
    /\ SumReciprocals(BestPrices(best_1x2, Legs1x2)) = ROne
    /\ sb3 = NoSurebet

RECURSIVE SumStakes(_, _)
SumStakes(sb, legs) ==
    IF legs = <<>> THEN RZero
    ELSE RAdd(sb.stakes[Head(legs)][1], SumStakes(sb, Tail(legs)))

StakesOk(sb, bst, legs) ==
    sb # NoSurebet =>
        /\ sb.bankroll = <<100, 1>>
        /\ sb.S = SumReciprocals(BestPrices(bst, legs))
        /\ \A k \in SeqRange(legs) :
              /\ sb.stakes[k][3] = bst[k][1]
              /\ sb.stakes[k][1] = RDiv(RDiv(sb.bankroll, bst[k][1]), sb.S)
              /\ RMul(sb.stakes[k][1], sb.stakes[k][3]) = RDiv(sb.bankroll, sb.S)
        /\ RGt(RDiv(sb.bankroll, sb.S), sb.bankroll)
        /\ SumStakes(sb, legs) = sb.bankroll
        /\ sb.profit_pct = RMul(RSub(ROne, sb.S), <<100, 1>>)
        /\ RGt(sb.profit_pct, RZero)

\* C4: in every opportunity the stake on an outcome of price p is (100/p)/S,
\* the stakes sum to 100, stake times price is 100/S > 100 for every outcome,
\* and profit_pct is (1 - S) * 100 > 0.
C4_Stakes ==
    /\ Sb3Known => StakesOk(sb3, best_1x2, Legs1x2)
    /\ Sb2Known => StakesOk(sb2, best_ou, LegsOu)

\* A cluster with a 1X2 and a 0-2/3+ opportunity, each across two sources.
C4_Witness ==
    /\ Sb2Known
    /\ sb3 # NoSurebet
    /\ sb2 # NoSurebet
    /\ sb3.stakes["1"][2] # sb3.stakes["2"][2]
    /\ sb2.stakes["0-2"][2] # sb2.stakes["3+"][2]

\* The record aligned_by_src retains for a source, and what it makes of it.
Retained(code) == chosen_of(items_of(cl, code))
AlignedOf(code) == by_src_raw[CHOOSE k \in 1..Len(by_src_raw) : by_src_raw[k].src = code]

Reversed(r) == r.home = canonical_pair(cl)[2] /\ r.away = canonical_pair(cl)[1]

\* C5: a retained record whose (home, away) is the canonical pair swapped has
\* its 1 and 2 prices exchanged by aligned_by_src and every other market
\* unchanged.
C5_ReversedRecordIsSwapped ==
    Aligned =>
        \A code \in SourcesOf(cl) :
            Reversed(Retained(code)) =>
                /\ AlignedOf(code).odds["1"] = Retained(code).odds["2"]
                /\ AlignedOf(code).odds["2"] = Retained(code).odds["1"]
                /\ \A k \in OddsKeys \ {"1", "2"} :
                      AlignedOf(code).odds[k] = Retained(code).odds[k]

InRange(x) == x # NoOdd /\ RLe(<<101, 100>>, x) /\ RLe(x, <<25, 1>>)

CoherentSource(r) ==
    /\ InRange(r.odds["1"]) /\ InRange(r.odds["X"]) /\ InRange(r.odds["2"])
    /\ RLe(<<19, 20>>, SumReciprocals(<<r.odds["1"], r.odds["X"], r.odds["2"]>>))
    /\ RLe(SumReciprocals(<<r.odds["1"], r.odds["X"], r.odds["2"]>>), <<19, 10>>)

SourceRecords == SeqRange(by_src_raw)

\* The set 1.50 / 1.55 / 1.60 in either orientation
IsExampleSet(r) ==
    /\ {r.odds["1"], r.odds["2"]} = {<<3, 2>>, <<8, 5>>}
    /\ r.odds["X"] = <<31, 20>>

\* C6: every price the strict 1X2 scan returns is quoted by the source named
\* with it, and that source's own 1, X, 2 are all within [1.01, 25.0] with a
\* reciprocal sum within [0.95, 1.90]; a source with 1.50 / 1.55 / 1.60 is
\* never named.
C6_StrictOnlyCoherent ==
    Best1x2Known =>
        \A k \in DOMAIN best_1x2 :
            /\ \E r \in SourceRecords : src_label(r.src) = best_1x2[k][2]
            /\ \A r \in SourceRecords :
                  src_label(r.src) = best_1x2[k][2] =>
                      /\ r.odds[k] = best_1x2[k][1]
                      /\ CoherentSource(r)
                      /\ ~IsExampleSet(r)

\* A source with the example set holds the highest price of an outcome and the
\* scan returns the lower price of a coherent source.
C6_Witness ==
    /\ Best1x2Known
    /\ \E r \in SourceRecords : \E k \in DOMAIN best_1x2 :
          /\ IsExampleSet(r)
          /\ RGt(r.odds[k], best_1x2[k][1])

Scanned(strict) == IF strict THEN {r \in SourceRecords : CoherentSource(r)} ELSE SourceRecords

BestIsMax(bst, legs, strict) ==
    \A k \in SeqRange(legs) :
        IF \E r \in Scanned(strict) : InRange(r.odds[k])
        THEN /\ k \in DOMAIN bst
             /\ InRange(bst[k][1])
             /\ \A r \in Scanned(strict) : InRange(r.odds[k]) => RLe(r.odds[k], bst[k][1])
             /\ \E r \in Scanned(strict) :
                   src_label(r.src) = bst[k][2] /\ r.odds[k] = bst[k][1]
        ELSE k \notin DOMAIN bst

\* C7: for each requested key best_odds_for_market returns the greatest
\* plausible price of the scanned sources with a source that quotes it, and
\* leaves out a key no scanned source has a plausible price for.
C7_BestIsMaxPlausible ==
    /\ Best1x2Known => BestIsMax(best_1x2, Legs1x2, TRUE)
    /\ BestOuKnown => BestIsMax(best_ou, LegsOu, FALSE)

\* Two sources quote 0-2, the greater price is returned; the only price of 3+
\* is out of range and the key is left out.
C7_Witness ==
    /\ BestOuKnown
    /\ "3+" \notin DOMAIN best_ou
    /\ \E r \in SourceRecords : r.odds["3+"] # NoOdd
    /\ "0-2" \in DOMAIN best_ou
    /\ \E r \in SourceRecords : InRange(r.odds["0-2"]) /\ RLt(r.odds["0-2"], best_ou["0-2"][1])

\* The labels canonical_pair returned to aligned_by_src (line 495), which puts
\* them on every aligned record.
CanonLabels == <<by_src_raw[1].home, by_src_raw[1].away>>

PriorityOrder == <<"soccer", "mozzart", "merkur", "meridian", "betole", "balkanbet">>
HasPrioritySource == \E k \in 1..Len(PriorityOrder) : PriorityOrder[k] \in SourcesOf(cl)
FirstPrioritySource ==
    PriorityOrder[CHOOSE k \in 1..Len(PriorityOrder) :
                     /\ PriorityOrder[k] \in SourcesOf(cl)
                     /\ \A m \in 1..(k - 1) : PriorityOrder[m] \notin SourcesOf(cl)]

\* C13: canonical_pair returns the (home, away) of a member of the cluster whose
\* source is the first of soccer, mozzart, merkur, meridian, betole, balkanbet
\* that the cluster has; with no such source, those of the first record.
C13_CanonicalPairByPriority ==
    Aligned =>
        IF HasPrioritySource
        THEN \E m \in 1..Len(cl) :
                /\ cl[m].src = FirstPrioritySource
                /\ CanonLabels = <<cl[m].home, cl[m].away>>
        ELSE CanonLabels = <<cl[1].home, cl[1].away>>

\* The first record is mozzart's, the second soccer's with the teams the other
\* way round, and the labels are soccer's.
C13_Witness ==
    /\ Aligned
    /\ Len(cl) = 2
    /\ cl[1].src = "mozzart"
    /\ cl[2].src = "soccer"
    /\ cl[1].home = cl[2].away
    /\ CanonLabels = <<cl[2].home, cl[2].away>>
    /\ CanonLabels # <<cl[1].home, cl[1].away>>

Members(code) == {cl[k] : k \in {m \in 1..Len(cl) : cl[m].src = code}}
Populated(r) == Cardinality({k \in OddsKeys : r.odds[k] # NoOdd})
Exchanged(odds) == [odds EXCEPT !["1"] = odds["2"], !["2"] = odds["1"]]

\* The aligned record al is made of the member r: its prices, with 1 and 2
\* exchanged or not.
MadeOf(al, r) == al.src = r.src /\ al.odds \in {r.odds, Exchanged(r.odds)}

Maximal(r, code) ==
    \A r2 \in Members(code) :
        /\ CoherentSource(r2) => CoherentSource(r)
        /\ (CoherentSource(r2) <=> CoherentSource(r)) => Populated(r2) <= Populated(r)

\* C14: for every source of the cluster aligned_by_src holds exactly one record,
\* made of a member of that source that no other member of the source beats:
\* none is coherent when it is not, none equally coherent has more prices.
C14_RetainedIsMaximal ==
    Aligned =>
        \A code \in SourcesOf(cl) :
            /\ Cardinality({k \in 1..Len(by_src_raw) : by_src_raw[k].src = code}) = 1
            /\ \E r \in Members(code) : MadeOf(AlignedOf(code), r) /\ Maximal(r, code)

\* Two coherent records of one source, the second with more prices: the second
\* is retained.
C14_Witness ==
    /\ Aligned
    /\ Len(cl) = 2
    /\ cl[1].src = cl[2].src
    /\ CoherentSource(cl[1]) /\ CoherentSource(cl[2])
    /\ Populated(cl[1]) < Populated(cl[2])
    /\ MadeOf(by_src_raw[1], cl[2])
    /\ ~MadeOf(by_src_raw[1], cl[1])

\* C15: aligned_by_src returns one record for each source of the cluster and
\* for no other, and every returned record has the canonical home and away of
\* the cluster as its home and away.
C15_KeyedBySourceWithCanonLabels ==
    Aligned =>
        /\ {by_src_raw[k].src : k \in 1..Len(by_src_raw)} = SourcesOf(cl)
        /\ Len(by_src_raw) = Cardinality(SourcesOf(cl))
        /\ \A k \in 1..Len(by_src_raw) :
              <<by_src_raw[k].home, by_src_raw[k].away>> = canonical_pair(cl)

\* Two sources name the teams in opposite orders; both aligned records carry
\* the labels of the first.
C15_Witness ==
    /\ Aligned
    /\ Len(cl) = 2
    /\ cl[1].src = "soccer"
    /\ cl[2].src = "merkur"
    /\ cl[2].home = cl[1].away
    /\ Len(by_src_raw) = 2
    /\ AlignedOf("merkur").home = cl[1].home
    /\ AlignedOf("merkur").home # cl[2].home

\* The record with every price outside [1.01, 25.0] taken away.
WithoutImplausible(r) ==
    [r EXCEPT !.odds = [k \in OddsKeys |-> IF InRange(r.odds[k]) THEN r.odds[k] ELSE NoOdd]]

CleanCluster == [k \in 1..Len(cl) |-> WithoutImplausible(cl[k])]

\* C16: a price outside [1.01, 25.0] has the effect of an absent one: the best
\* prices and the opportunities of a cluster are those of the cluster with its
\* implausible prices taken away, whichever duplicate records are retained.
C16_ImplausibleAsAbsent ==
    Sb2Known =>
        /\ best_1x2 = best_odds_for_market(aligned_by_src(CleanCluster), Legs1x2, TRUE)
        /\ best_ou = best_odds_for_market(aligned_by_src(CleanCluster), LegsOu, FALSE)
        /\ sb3 = surebet_3way(best_odds_for_market(aligned_by_src(CleanCluster),
                                                   Legs1x2, TRUE))
        /\ sb2 = surebet_2way(best_odds_for_market(aligned_by_src(CleanCluster),
                                                   LegsOu, FALSE), "0-2", "3+")

\* No scanned source has a plausible price for one of the legs.
MissingLeg(legs, strict) ==
    \E k \in SeqRange(legs) : \A r \in Scanned(strict) : ~InRange(r.odds[k])

AfterSb3 == pc \in {"best_ou", "sb2", "emit", "loop_end", "written"}
AfterSb2 == pc \in {"emit", "loop_end", "written"}

With1x2(r, o) ==
    [r EXCEPT !.odds = [k \in OddsKeys |-> IF k \in {"1", "X", "2"} THEN o[k] ELSE r.odds[k]]]
WithOu(r, o) ==
    [r EXCEPT !.odds = [k \in OddsKeys |-> IF k \in {"0-2", "3+"} THEN o[k] ELSE r.odds[k]]]

\* The clusters that differ from cl in 1, X, 2 prices (in 0-2, 3+ prices) only.
Variants1x2 ==
    {[k \in 1..Len(cl) |-> With1x2(cl[k], f[k])] : f \in [1..Len(cl) -> OddsPool]}
VariantsOu ==
    {[k \in 1..Len(cl) |-> WithOu(cl[k], f[k])] : f \in [1..Len(cl) -> OddsPool]}

\* sb3 and sb2 of lines 724-729 for a cluster
ThreeWayOf(cluster) ==
    surebet_3way(best_odds_for_market(aligned_by_src(cluster), Legs1x2, TRUE))
TwoWayOf(cluster) ==
    surebet_2way(best_odds_for_market(aligned_by_src(cluster), LegsOu, FALSE), "0-2", "3+")

Independent ==
    /\ \A v \in Variants1x2 : TwoWayOf(v) = sb2
    /\ \A v \in VariantsOu : ThreeWayOf(v) = sb3

\* C18 as claimed: in every cluster the 2-way result is unchanged by any change
\* to the 1, X, 2 prices of its records and the 1X2 result by any change to
\* their 0-2 and 3+ prices.
C18_Independent == Sb2Known => Independent

NoDuplicates == Cardinality(SourcesOf(cl)) = Len(cl)

\* C18 amended: in a cluster to which every source contributes one record the
\* 2-way result is unchanged by any change to the 1, X, 2 prices and the 1X2
\* result by any change to the 0-2 and 3+ prices.
C18_IndependentWithoutDuplicates == (Sb2Known /\ NoDuplicates) => Independent

\* Two sources with a 1X2 and a 0-2/3+ opportunity; other 1, X, 2 prices take
\* the 1X2 opportunity away and leave the 0-2/3+ one.
C18_Witness ==
    /\ Sb2Known
    /\ Len(cl) = 2
    /\ NoDuplicates
    /\ sb3 # NoSurebet
    /\ sb2 # NoSurebet
    /\ \E v \in Variants1x2 : ThreeWayOf(v) = NoSurebet /\ TwoWayOf(v) = sb2

\* The sources whose prices the legs of an opportunity take.
LegSources(sb) == {sb.stakes[k][2] : k \in DOMAIN sb.stakes}

CrossSource(sb) == sb # NoSurebet => Cardinality(LegSources(sb)) >= 2

\* C19: every opportunity in the report takes the prices of its legs from at
\* least two sources, and a cluster whose records are all of one source is not
\* reported.
C19_CrossSource ==
    pc = "written" =>
        /\ \A n \in 1..Len(out) : CrossSource(out[n].sb3) /\ CrossSource(out[n].sb2)
        /\ Cardinality(SourcesOf(cl)) = 1 => out = <<>>

LabelsOf(r) == <<r.home, r.away>>

\* The position in the cluster of the last record of the source code.
LastPosition(code) ==
    CHOOSE k \in 1..Len(cl) : cl[k].src = code /\ \A m \in (k + 1)..Len(cl) : cl[m].src # code

\* C29 as claimed: the canonical labels are the labels of the record that
\* aligned_by_src retains for the source that supplies them.
C29_LabelsOfRetained ==
    Aligned => CanonLabels = LabelsOf(Retained(FirstPrioritySource))

\* C29 amended: the canonical labels are the labels of the last record of the
\* supplying source in the cluster, which is the retained record when the
\* source has one record in the cluster.
C29_LabelsOfLast ==
    Aligned =>
        /\ CanonLabels = LabelsOf(cl[LastPosition(FirstPrioritySource)])
        /\ Cardinality({k \in 1..Len(cl) : cl[k].src = FirstPrioritySource}) = 1
              => CanonLabels = LabelsOf(Retained(FirstPrioritySource))

\* Two records of one source name the teams in opposite orders: the first is
\* retained, the labels are the second's.
C29_Witness ==
    /\ Aligned
    /\ Len(cl) = 2
    /\ cl[1].src = cl[2].src
    /\ LabelsOf(cl[1]) # LabelsOf(cl[2])
    /\ Retained(cl[1].src) = cl[1]
    /\ Retained(cl[1].src) # cl[2]
    /\ CanonLabels = LabelsOf(cl[2])

\* C30: a retained record whose home and away are the canonical labels keeps
\* its prices as they are: its aligned 1 and 2 are its own 1 and 2.
C30_SameLabelsStayStraight ==
    Aligned =>
        \A code \in SourcesOf(cl) :
            LabelsOf(Retained(code)) = CanonLabels =>
                /\ AlignedOf(code).odds["1"] = Retained(code).odds["1"]
                /\ AlignedOf(code).odds["2"] = Retained(code).odds["2"]

\* The two teams score 1.0 against each other, so straight and swap tie, and
\* the record with the canonical labels keeps its different 1 and 2.
C30_Witness ==
    /\ Aligned
    /\ Len(cl) = 2
    /\ NoDuplicates
    /\ LabelsOf(cl[2]) = CanonLabels
    /\ SideScore(cl[2].home, cl[2].away) = ROne
    /\ cl[2].odds["1"] # cl[2].odds["2"]
    /\ AlignedOf(cl[2].src).odds = cl[2].odds

(***************************************************************************)
(* proba.py: the words of a team name, the alias table and the grouping    *)
(* loop of main (lines 257-274).                                           *)
(***************************************************************************)
TEAM_STOPWORDS ==
    { <<"f","c">>, <<"f","k">>, <<"a","l">>, <<"c","f">>, <<"s","c">>, <<"a","c">>,
      <<"b","c">>, <<"u","d">>, <<"c","d">>, <<"s","d">>, <<"a","d">>, <<"c","a">>,
      <<"t","h","e">>, <<"c","l","u","b">>, <<"d","e">>, <<"o","f">>, <<"s","v">>,
      <<"s","s">>, <<"k","s">>, <<"i","k">>, <<"i","f">>, <<"s","k">>, <<"u","1","9">>,
      <<"u","2","0">>, <<"u","2","1">>, <<"b">>, <<"c">>, <<"a">>, <<"u","2","3">>,
      <<"u","1","7">>, <<"u","1","6">>, <<"u","1","5">>, <<"u","1","4">>,
      <<"u","1","3">> }

\* The entries of TEAM_SYNONYMS that a name of ProbaNames can hit, in the order
\* of the dictionary: <<canonical name, aliases>>.
TEAM_SYNONYMS ==
    << << <<"I","n","t","e","r">>,
          << <<"I","n","t","e","r"," ","M","i","l","a","n">>,
             <<"I","n","t","e","r"," ","M","i","l","a","n","o">>,
             <<"I","n","t","e","r","n","a","z","i","o","n","a","l","e">>,
             <<"F","C"," ","I","n","t","e","r","n","a","z","i","o","n","a","l","e">> >> >>,
       << <<"A","C"," ","M","i","l","a","n">>,
          << <<"M","i","l","a","n">>, <<"A",".","C","."," ","M","i","l","a","n">> >> >>,
       << <<"M","a","r","s","e","i","l","l","e">>,
          << <<"O","l","y","m","p","i","q","u","e"," ","M","a","r","s","e","i","l","l","e">>,
             <<"O","M">>, <<"O","."," ","M","a","r","s","e","i","l","l","e">> >> >>,
       << <<"R","e","a","l"," ","B","e","t","i","s">>,
          << <<"B","e","t","i","s">>,
             <<"R","e","a","l"," ","B","e","t","i","s"," ","B","a","l","o","m","p","i","e">> >> >> >>

\* [a-z0-9]
IsAz09(c) ==
    c \in SeqRange(LowerCase) \cup {"0", "1", "2", "3", "4", "5", "6", "7", "8", "9"}

norm_word(w) == SelectSeq(LowerSeq(StripAccentsSeq(w)), IsAz09)

\* [\s\-\._/]
IsSeparator(c) == c \in {" ", "-", ".", "_", "/"}

split_team_words(name) ==
    LET parts == SplitWords([k \in 1..Len(name) |->
                                IF IsSeparator(name[k]) THEN " " ELSE name[k]], <<>>)
        clean == SelectSeq([k \in 1..Len(parts) |-> norm_word(parts[k])],
                           LAMBDA w : w # <<>>)
    IN  SelectSeq(clean, LAMBDA w : w \notin TEAM_STOPWORDS /\ Len(w) >= 2)

make_key(name) ==
    LET s == LowerSeq(StripAccentsSeq(name))
    IN  CollapseSpaces([k \in 1..Len(s) |-> IF IsAz09(s[k]) THEN s[k] ELSE " "], TRUE)

\* The items <<key, canonical name>> in the order lines 112-115 assign them; a
\* later assignment to a key replaces an earlier one.
ALIAS_TO_CANON ==
    Concat([e \in 1..Len(TEAM_SYNONYMS) |->
               LET all_forms == <<TEAM_SYNONYMS[e][1]>> \o TEAM_SYNONYMS[e][2]
               IN  [f \in 1..Len(all_forms) |->
                       <<make_key(all_forms[f]), TEAM_SYNONYMS[e][1]>>]])

alias_normalize(name) ==
    LET hits == {k \in 1..Len(ALIAS_TO_CANON) : ALIAS_TO_CANON[k][1] = make_key(name)}
    IN  IF hits = {} THEN name
        ELSE ALIAS_TO_CANON[CHOOSE k \in hits : \A h \in hits : h <= k][2]

share_meaningful_word(a, b) ==
    SeqRange(split_team_words(alias_normalize(a)))
        \cap SeqRange(split_team_words(alias_normalize(b))) # {}

ProbaNames ==
    { <<"M","i","l","a","n">>, <<"A","C"," ","M","i","l","a","n">>,
      <<"I","n","t","e","r">>, <<"I","n","t","e","r"," ","M","i","l","a","n">>,
      <<"R","e","a","l"," ","M","a","d","r","i","d">>,
      <<"R","e'","a","l","-","M","a","d","r","i","d">>,
      <<"R","e","a","l"," ","B","e","t","i","s">>, <<"B","e","t","i","s"," ","B">>,
      <<"M","a","r","s","e","i","l","l","e">>, <<"O","M">>,
      <<"O","."," ","M","a","r","s","e","i","l","l","e">>, <<"F","C">> }

\* Rows of df_all: the columns the grouping loop reads.
Row(t, h, a) == [time |-> t, home |-> h, away |-> a]
GroupRows ==
    { Row("20:00", <<"R","e","a","l"," ","M","a","d","r","i","d">>,
                   <<"M","a","r","s","e","i","l","l","e">>),
      Row("20:00", <<"R","e","a","l"," ","B","e","t","i","s">>, <<"O","M">>),
      Row("20:00", <<"B","e","t","i","s"," ","B">>,
                   <<"O","."," ","M","a","r","s","e","i","l","l","e">>),
      Row("20:00", <<"R","e'","a","l","-","M","a","d","r","i","d">>, <<"O","M">>),
      Row("20:00", <<"M","i","l","a","n">>, <<"I","n","t","e","r">>),
      Row("20:00", <<"A","C"," ","M","i","l","a","n">>,
                   <<"I","n","t","e","r"," ","M","i","l","a","n">>),
      Row("21:00", <<"A","C"," ","M","i","l","a","n">>, <<"I","n","t","e","r">>),
      Row("20:00", <<"F","C">>, <<"I","n","t","e","r">>) }

MaxRows == 3

\* Lines 250-253 return before the loop when there is no row.
GroupFrames == UNION {[1..n -> GroupRows] : n \in 1..MaxRows}

\* The mutation of joins: the row is compared with the last member of the group.
joins_last_member(frame, grp, other, taken) ==
    /\ other \notin taken
    /\ frame[other].time = frame[grp[Len(grp)]].time
    /\ share_meaningful_word(frame[grp[Len(grp)]].home, frame[other].home)
    /\ share_meaningful_word(frame[grp[Len(grp)]].away, frame[other].away)

\* Lines 266-270: row number other joins the group grp, whose first member is
\* the row t0, h0 and a0 were read from.
joins(frame, grp, other, taken) ==
    /\ other \notin taken
    /\ frame[other].time = frame[grp[1]].time
    /\ share_meaningful_word(frame[grp[1]].home, frame[other].home)
    /\ share_meaningful_word(frame[grp[1]].away, frame[other].away)

GroupInit ==
    /\ pc = "for_i"
    /\ df_all \in GroupFrames
    /\ match_groups = <<>> /\ used = {} /\ group = <<>>
    /\ row_i = 1 /\ row_j = 0
    /\ MainPyIdle
    /\ RunAllIdle

\* Lines 260-261: the row is in a group already.
RowUsed ==
    /\ pc = "for_i"
    /\ row_i <= Len(df_all)
    /\ row_i \in used
    /\ row_i' = row_i + 1
    /\ UNCHANGED <<pc, df_all, match_groups, used, group, row_j,
                   main_py_vars, run_all_vars>>

\* Lines 262-265: the row opens a group.
RowOpens ==
    /\ pc = "for_i"
    /\ row_i <= Len(df_all)
    /\ row_i \notin used
    /\ group' = <<row_i>>
    /\ used' = used \cup {row_i}
    /\ row_j' = row_i + 1
    /\ pc' = "for_j"
    /\ UNCHANGED <<df_all, match_groups, row_i, main_py_vars, run_all_vars>>

\* Lines 265-272: one iteration of the inner loop.
RowCompared ==
    /\ pc = "for_j"
    /\ row_j <= Len(df_all)
    /\ IF joins(df_all, group, row_j, used)
       THEN group' = Append(group, row_j) /\ used' = used \cup {row_j}
       ELSE UNCHANGED <<group, used>>
    /\ row_j' = row_j + 1
    /\ UNCHANGED <<pc, df_all, match_groups, row_i, main_py_vars, run_all_vars>>

\* Line 273, after the last iteration of the inner loop.
GroupAppended ==
    /\ pc = "for_j"
    /\ row_j > Len(df_all)
    /\ match_groups' = Append(match_groups, group)
    /\ row_i' = row_i + 1
    /\ pc' = "for_i"
    /\ UNCHANGED <<df_all, used, group, row_j, main_py_vars, run_all_vars>>

\* The outer loop ends.
GroupsDone ==
    /\ pc = "for_i"
    /\ row_i > Len(df_all)
    /\ pc' = "grouped"
    /\ UNCHANGED <<group_vars, main_py_vars, run_all_vars>>

GroupNext == RowUsed \/ RowOpens \/ RowCompared \/ GroupAppended \/ GroupsDone

SpecGroup == GroupInit /\ [][GroupNext]_vars

(***************************************************************************)
(* Claims about the grouping loop.                                         *)
(***************************************************************************)
Grouped == pc = "grouped"

GroupsOf(r) == {g \in 1..Len(match_groups) : r \in SeqRange(match_groups[g])}

SharesBothSides(r, s) ==
    /\ share_meaningful_word(df_all[r].home, df_all[s].home)
    /\ share_meaningful_word(df_all[r].away, df_all[s].away)

\* C27: when the grouping loop has ended, the groups partition the rows (every
\* row number is in exactly one group, once), and every member of a group
\* after the first has the time string of the group's first row and shares a
\* meaningful word with the first row's home name and with its away name.
C27_GroupsPartitionRows ==
    Grouped =>
        /\ \A r \in 1..Len(df_all) : Cardinality(GroupsOf(r)) = 1
        /\ \A g \in 1..Len(match_groups) :
              /\ SeqRange(match_groups[g]) \subseteq 1..Len(df_all)
              /\ Cardinality(SeqRange(match_groups[g])) = Len(match_groups[g])
              /\ \A k \in 2..Len(match_groups[g]) :
                    /\ df_all[match_groups[g][k]].time = df_all[match_groups[g][1]].time
                    /\ SharesBothSides(match_groups[g][1], match_groups[g][k])

\* C27 witness: a group of two rows has been formed, and a later row that has
\* the group's time and shares words on both sides with its second member, but
\* not with its first, is in another group.
C27_Witness ==
    /\ Grouped
    /\ Len(df_all) = 3
    /\ match_groups = << <<1, 2>>, <<3>> >>
    /\ df_all[3].time = df_all[1].time
    /\ SharesBothSides(2, 3)
    /\ ~SharesBothSides(1, 3)

(***************************************************************************)
(* run_all.py: wait_for_file_stable (lines 109-182) on a file that other   *)
(* processes write, truncate and delete while it waits.  A step of the     *)
(* function is one pass of one of its loops, which reads the file once and *)
(* the clock once; the other processes act between the steps.  The clock   *)
(* is kept as what the function asks of it: whether deadline,              *)
(* max_stable_wait and size_deadline have passed.  start + max_wait is     *)
(* before start + TIMEOUT_EACH and not after size_deadline, which is       *)
(* max_wait after a later reading of the clock.                            *)
(***************************************************************************)
MIN_BYTES == 100
STABILITY_CHECKS == 2

\* The sizes the file takes.
FileSizes == {0, 100, 250}

\* The number of changes the other processes make during one call.
MaxChanges == 3

Waiting == pc \in {"wait_exists", "wait_size", "wait_stable"}

StableInit ==
    /\ pc = "wait_exists"
    /\ path_size \in FileSizes \cup {None}
    /\ past_deadline = FALSE /\ past_max_stable = FALSE /\ past_size_deadline = FALSE
    /\ last_size = None /\ stable_count = 0
    /\ wfs_ret = FALSE /\ reads = <<>> /\ changes = 0
    /\ MainPyIdle
    /\ GroupIdle
    /\ LoopIdle

\* Another process creates the file or appends to it.
FileWritten ==
    /\ Waiting
    /\ changes < MaxChanges
    /\ \E s \in FileSizes : s > path_size /\ path_size' = s
    /\ changes' = changes + 1
    /\ UNCHANGED <<pc, past_deadline, past_max_stable, past_size_deadline,
                   last_size, stable_count, wfs_ret, reads, main_py_vars, group_vars, loop_vars>>

\* Another process truncates the file.
FileTruncated ==
    /\ Waiting
    /\ changes < MaxChanges
    /\ \E s \in FileSizes : s < path_size /\ path_size' = s
    /\ changes' = changes + 1
    /\ UNCHANGED <<pc, past_deadline, past_max_stable, past_size_deadline,
                   last_size, stable_count, wfs_ret, reads, main_py_vars, group_vars, loop_vars>>

\* Another process deletes the file.
FileDeleted ==
    /\ Waiting
    /\ changes < MaxChanges
    /\ path_size # None
    /\ path_size' = None
    /\ changes' = changes + 1
    /\ UNCHANGED <<pc, past_deadline, past_max_stable, past_size_deadline,
                   last_size, stable_count, wfs_ret, reads, main_py_vars, group_vars, loop_vars>>

\* The clock passes max_stable_wait (line 125), the first of the three.
MaxStableWaitPasses ==
    /\ Waiting
    /\ ~past_max_stable
    /\ past_max_stable' = TRUE
    /\ UNCHANGED <<pc, path_size, past_deadline, past_size_deadline,
                   last_size, stable_count, wfs_ret, reads, changes,
                   main_py_vars, group_vars, loop_vars>>

\* The clock passes size_deadline (line 136).
SizeDeadlinePasses ==
    /\ pc \in {"wait_size", "wait_stable"}
    /\ past_max_stable
    /\ ~past_size_deadline
    /\ past_size_deadline' = TRUE
    /\ UNCHANGED <<pc, path_size, past_deadline, past_max_stable,
                   last_size, stable_count, wfs_ret, reads, changes,
                   main_py_vars, group_vars, loop_vars>>

\* The clock passes deadline (line 124).
DeadlinePasses ==
    /\ Waiting
    /\ past_max_stable
    /\ ~past_deadline
    /\ past_deadline' = TRUE
    /\ UNCHANGED <<pc, path_size, past_max_stable, past_size_deadline,
                   last_size, stable_count, wfs_ret, reads, changes,
                   main_py_vars, group_vars, loop_vars>>

\* Lines 128-131: one pass of the first loop.
ExistsPoll ==
    /\ pc = "wait_exists"
    /\ ~past_deadline
    /\ pc' = IF path_size # None THEN "wait_size" ELSE "wait_exists"
    /\ UNCHANGED <<stable_vars, main_py_vars, group_vars, loop_vars>>

\* Lines 132-134: the else of the first loop.
ExistsTimeout ==
    /\ pc = "wait_exists"
    /\ past_deadline
    /\ wfs_ret' = FALSE
    /\ pc' = "wfs_returned"
    /\ UNCHANGED <<path_size, past_deadline, past_max_stable, past_size_deadline,
                   last_size, stable_count, reads, changes, main_py_vars, group_vars, loop_vars>>

\* Lines 137-144: one pass of the second loop; lines 154-155 when it breaks.
SizePoll ==
    /\ pc = "wait_size"
    /\ ~past_size_deadline /\ ~past_deadline
    /\ IF path_size # None /\ path_size >= MIN_BYTES
       THEN pc' = "wait_stable" /\ last_size' = None /\ stable_count' = 0
       ELSE UNCHANGED <<pc, last_size, stable_count>>
    /\ UNCHANGED <<path_size, past_deadline, past_max_stable, past_size_deadline,
                   wfs_ret, reads, changes, main_py_vars, group_vars, loop_vars>>

\* Lines 145-151: the else of the second loop.
SizeTimeout ==
    /\ pc = "wait_size"
    /\ past_size_deadline \/ past_deadline
    /\ wfs_ret' = FALSE
    /\ pc' = "wfs_returned"
    /\ UNCHANGED <<path_size, past_deadline, past_max_stable, past_size_deadline,
                   last_size, stable_count, reads, changes, main_py_vars, group_vars, loop_vars>>

\* Lines 165-171: <<last_size, stable_count>> after a read of current_size.
stable_step(last, count, current) ==
    IF last = None THEN <<current, count>>
    ELSE IF current = last THEN <<last, count + 1>>
    ELSE <<current, 0>>

\* Lines 158-174: one pass of the third loop.
StablePoll ==
    /\ pc = "wait_stable"
    /\ stable_count < STABILITY_CHECKS /\ ~past_max_stable /\ ~past_deadline
    /\ IF path_size = None
       THEN /\ wfs_ret' = FALSE
            /\ pc' = "wfs_returned"
            /\ UNCHANGED <<last_size, stable_count, reads>>
       ELSE /\ last_size' = stable_step(last_size, stable_count, path_size)[1]
            /\ stable_count' = stable_step(last_size, stable_count, path_size)[2]
            /\ reads' = Append(reads, path_size)
            /\ UNCHANGED <<pc, wfs_ret>>
    /\ UNCHANGED <<path_size, past_deadline, past_max_stable, past_size_deadline,
                   changes, main_py_vars, group_vars, loop_vars>>

\* Lines 176-182: the third loop has ended.
StableReturn ==
    /\ pc = "wait_stable"
    /\ ~(stable_count < STABILITY_CHECKS /\ ~past_max_stable /\ ~past_deadline)
    /\ wfs_ret' = (stable_count >= STABILITY_CHECKS)
    /\ pc' = "wfs_returned"
    /\ UNCHANGED <<path_size, past_deadline, past_max_stable, past_size_deadline,
                   last_size, stable_count, reads, changes, main_py_vars, group_vars, loop_vars>>

StableNext ==
    \/ FileWritten \/ FileTruncated \/ FileDeleted
    \/ MaxStableWaitPasses \/ SizeDeadlinePasses \/ DeadlinePasses
    \/ ExistsPoll \/ ExistsTimeout \/ SizePoll \/ SizeTimeout
    \/ StablePoll \/ StableReturn

SpecStable == StableInit /\ [][StableNext]_vars

(***************************************************************************)
(* Claims about wait_for_file_stable.                                      *)
(***************************************************************************)
ReturnedTrue == pc = "wfs_returned" /\ wfs_ret

\* The last STABILITY_CHECKS + 1 sizes read by the third loop are one size.
ReadUnchanged ==
    /\ Len(reads) >= STABILITY_CHECKS + 1
    /\ \A k \in (Len(reads) - STABILITY_CHECKS)..Len(reads) : reads[k] = reads[Len(reads)]

\* C25: when wait_for_file_stable returns True the file exists, its size at
\* that moment is at least min_bytes, and the size was read unchanged on
\* `checks` consecutive reads after the first, whatever the other processes
\* did to the file in the meantime.
C25_TrueMeansStableFile ==
    ReturnedTrue =>
        /\ path_size # None
        /\ path_size >= MIN_BYTES
        /\ ReadUnchanged

(***************************************************************************)
(* run_all.py: main_loop (lines 409-458) and one_cycle (lines 367-406)     *)
(* with run_scrapers_parallel, run_single_scraper and run_main.  The       *)
(* scraper processes, the stability checks and the main script run beside  *)
(* the main thread; an exception or a KeyboardInterrupt may be raised in   *)
(* the main thread at any step.  main_ret is <<>> until run_main returns   *)
(* and <<code>> after.                                                     *)
(***************************************************************************)
\* SCRAPERS has MaxScrapers entries in the model (11 in the source), each
\* with two output files.
MaxScrapers == 2
Scrapers == 1..MaxScrapers
OutputsOf(S) == S \X {1, 2}

\* cycle_count is only printed: the model stops counting at MaxCycles.
MaxCycles == 2

InCycle == pc \in {"submit", "stability", "run_main", "main_running", "push", "report"}

NoneRunning ==
    /\ \A s \in Scrapers : proc[s] # "running"
    /\ \A o \in OutputsOf(Scrapers) : stability[o] # "running"

LoopInit ==
    /\ pc = "loop_top"
    /\ CONTINUOUS_MODE \in BOOLEAN
    /\ cycle_count = 0
    /\ scrapers_to_run = {}
    /\ proc = [s \in Scrapers |-> "none"]
    /\ futures = 0
    /\ stability = [o \in OutputsOf(Scrapers) |-> "none"]
    /\ main_ret = <<>>
    /\ target_exists = FALSE /\ target_stable = FALSE /\ scrapers_done = FALSE
    /\ pushed = FALSE /\ report_written = FALSE /\ raised = "none"
    /\ MainPyIdle
    /\ GroupIdle
    /\ StableIdle

\* Lines 417-421 and 369-389: the loop calls one_cycle, which keeps the
\* scrapers whose script exists and returns when there is none.
StartCycle ==
    /\ pc = "loop_top"
    /\ cycle_count' = IF cycle_count < MaxCycles THEN cycle_count + 1 ELSE cycle_count
    /\ \E S \in SUBSET Scrapers :
          /\ scrapers_to_run' = S
          /\ pc' = IF S = {} THEN "after_cycle" ELSE "submit"
    /\ proc' = [s \in Scrapers |-> "none"]
    /\ futures' = 0
    /\ stability' = [o \in OutputsOf(Scrapers) |-> "none"]
    /\ main_ret' = <<>>
    /\ target_exists' = FALSE /\ target_stable' = FALSE /\ scrapers_done' = FALSE
    /\ pushed' = FALSE /\ report_written' = FALSE /\ raised' = "none"
    /\ UNCHANGED <<CONTINUOUS_MODE, main_py_vars, group_vars, stable_vars>>

\* Lines 224-229 with 192-201: the next scraper is submitted; its thread starts
\* the process, or returns -1 when the script is gone or Popen fails.
SubmitScraper ==
    /\ pc = "submit"
    /\ \E s \in scrapers_to_run :
          /\ Cardinality({t \in scrapers_to_run : t < s}) = futures
          /\ \E started \in {"running", "failed"} : proc' = [proc EXCEPT ![s] = started]
    /\ futures' = futures + 1
    /\ UNCHANGED <<pc, CONTINUOUS_MODE, cycle_count, scrapers_to_run, stability, main_ret,
                   target_exists, target_stable, scrapers_done, pushed, report_written,
                   raised, main_py_vars, group_vars, stable_vars>>

\* Lines 202-203: the process exits within TIMEOUT_EACH.
ScraperExits ==
    /\ \E s \in Scrapers : proc[s] = "running" /\ proc' = [proc EXCEPT ![s] = "exited"]
    /\ UNCHANGED <<pc, CONTINUOUS_MODE, cycle_count, scrapers_to_run, futures, stability,
                   main_ret, target_exists, target_stable, scrapers_done, pushed,
                   report_written, raised, main_py_vars, group_vars, stable_vars>>

\* Lines 204-207: the process is killed after TIMEOUT_EACH.
ScraperKilled ==
    /\ \E s \in Scrapers : proc[s] = "running" /\ proc' = [proc EXCEPT ![s] = "killed"]
    /\ UNCHANGED <<pc, CONTINUOUS_MODE, cycle_count, scrapers_to_run, futures, stability,
                   main_ret, target_exists, target_stable, scrapers_done, pushed,
                   report_written, raised, main_py_vars, group_vars, stable_vars>>

\* The mutation of results_collected: the main thread waits for the first
\* future only.
results_collected_first_only(S, ps, n) ==
    /\ n >= 1
    /\ \A s \in S : (\A t \in S : s <= t) => ps[s] \in {"exited", "killed", "failed"}

\* Lines 231-247: every future has been submitted and future.result() has
\* returned for each, which it does when the thread of the scraper has ended.
results_collected(S, ps, n) ==
    /\ n = Cardinality(S)
    /\ \A s \in S : ps[s] \in {"exited", "killed", "failed"}

\* Lines 231-258: the results are collected and a stability check is submitted
\* for every output file.
SubmitChecks ==
    /\ pc = "submit"
    /\ results_collected(scrapers_to_run, proc, futures)
    /\ stability' = [o \in OutputsOf(Scrapers) |->
                        IF o[1] \in scrapers_to_run THEN "running" ELSE "none"]
    /\ pc' = "stability"
    /\ UNCHANGED <<CONTINUOUS_MODE, cycle_count, scrapers_to_run, proc, futures, main_ret,
                   target_exists, target_stable, scrapers_done, pushed, report_written,
                   raised, main_py_vars, group_vars, stable_vars>>

\* Line 257: a call of wait_for_file_stable returns.
CheckReturns ==
    /\ \E o \in OutputsOf(Scrapers) :
          stability[o] = "running" /\ stability' = [stability EXCEPT ![o] = "returned"]
    /\ UNCHANGED <<pc, CONTINUOUS_MODE, cycle_count, scrapers_to_run, proc, futures,
                   main_ret, target_exists, target_stable, scrapers_done, pushed,
                   report_written, raised, main_py_vars, group_vars, stable_vars>>

\* Lines 260-265: every check has returned; run_scrapers_parallel returns.
ChecksCollected ==
    /\ pc = "stability"
    /\ \A o \in OutputsOf(scrapers_to_run) : stability[o] = "returned"
    /\ scrapers_done' = TRUE
    /\ pc' = "run_main"
    /\ UNCHANGED <<CONTINUOUS_MODE, cycle_count, scrapers_to_run, proc, futures, stability,
                   main_ret, target_exists, target_stable, pushed, report_written,
                   raised, main_py_vars, group_vars, stable_vars>>

\* Lines 273-285: run_main returns 1 when the script is missing and -1 when
\* Popen fails; otherwise the main script is started.
MainStarts ==
    /\ pc = "run_main"
    /\ \/ pc' = "main_running" /\ UNCHANGED main_ret
       \/ \E code \in {1, -1} : main_ret' = <<code>> /\ pc' = "push"
    /\ UNCHANGED <<CONTINUOUS_MODE, cycle_count, scrapers_to_run, proc, futures, stability,
                   target_exists, target_stable, scrapers_done, pushed, report_written,
                   raised, main_py_vars, group_vars, stable_vars>>

\* Lines 285-310: the main script exits with code 0 or 1, or is killed after
\* 20 minutes (-999), or communicate fails (-1).
MainReturns ==
    /\ pc = "main_running"
    /\ \E code \in {0, 1, -999, -1} : main_ret' = <<code>>
    /\ pc' = "push"
    /\ UNCHANGED <<CONTINUOUS_MODE, cycle_count, scrapers_to_run, proc, futures, stability,
                   target_exists, target_stable, scrapers_done, pushed, report_written,
                   raised, main_py_vars, group_vars, stable_vars>>

\* Lines 394-397: git_push_file is called.
push_allowed(code, exists, stable) == code = <<0>> /\ exists /\ stable

\* Lines 394-399: TARGET_PUSH.exists() and wait_for_file_stable(TARGET_PUSH)
\* answer either way; the values are kept as they would be were they asked for.
PushStep ==
    /\ pc = "push"
    /\ \E exists \in BOOLEAN, stable \in BOOLEAN :
          /\ target_exists' = exists
          /\ target_stable' = stable
          /\ pushed' = push_allowed(main_ret, exists, stable)
    /\ pc' = "report"
    /\ UNCHANGED <<CONTINUOUS_MODE, cycle_count, scrapers_to_run, proc, futures, stability,
                   main_ret, scrapers_done, report_written, raised,
                   main_py_vars, group_vars, stable_vars>>

\* Lines 401-406: the report is gathered and written; one_cycle returns.
CycleReport ==
    /\ pc = "report"
    /\ report_written' = TRUE
    /\ pc' = "after_cycle"
    /\ UNCHANGED <<CONTINUOUS_MODE, cycle_count, scrapers_to_run, proc, futures, stability,
                   main_ret, target_exists, target_stable, scrapers_done, pushed,
                   raised, main_py_vars, group_vars, stable_vars>>

\* An exception is raised in the main thread inside one_cycle: Ctrl+C, or a
\* call that is in no try block (executor.submit, REPORT_DIR.mkdir of line 353).
CycleRaises ==
    /\ InCycle
    /\ \E exc \in {"Exception", "KeyboardInterrupt"} : raised' = exc
    /\ pc' = "unwinding"
    /\ UNCHANGED <<CONTINUOUS_MODE, cycle_count, scrapers_to_run, proc, futures, stability,
                   main_ret, target_exists, target_stable, scrapers_done, pushed,
                   report_written, main_py_vars, group_vars, stable_vars>>

\* The mutation of after_exception: every exception breaks the loop.
after_exception_breaks(exc) == "loop_exit"

\* Lines 423-429: a KeyboardInterrupt breaks the loop, any other exception is
\* printed and the loop goes on.
after_exception(exc) == IF exc = "KeyboardInterrupt" THEN "loop_exit" ELSE "after_cycle"

\* Lines 423-429, after the executor's with block has waited for its threads.
ExceptionHandled ==
    /\ pc = "unwinding"
    /\ NoneRunning
    /\ pc' = after_exception(raised)
    /\ UNCHANGED <<loop_vars, main_py_vars, group_vars, stable_vars>>

\* Lines 431-458: continuous mode sleeps for the cooldown; normal mode sleeps
\* for what is left of RUN_EVERY_MIN minutes, when something is left.
AfterCycle ==
    /\ pc = "after_cycle"
    /\ \E overran \in BOOLEAN :
          pc' = IF ~CONTINUOUS_MODE /\ overran THEN "loop_top" ELSE "sleeping"
    /\ UNCHANGED <<loop_vars, main_py_vars, group_vars, stable_vars>>

\* Lines 439 and 449: time.sleep returns.
SleepEnds ==
    /\ pc = "sleeping"
    /\ pc' = "loop_top"
    /\ UNCHANGED <<loop_vars, main_py_vars, group_vars, stable_vars>>

\* Ctrl+C outside the try block of lines 420-429: the KeyboardInterrupt leaves
\* main_loop.
Interrupted ==
    /\ pc \in {"after_cycle", "sleeping"}
    /\ pc' = "loop_crashed"
    /\ UNCHANGED <<loop_vars, main_py_vars, group_vars, stable_vars>>

MainThreadStep ==
    \/ StartCycle \/ SubmitScraper \/ SubmitChecks \/ ChecksCollected \/ MainStarts
    \/ PushStep \/ CycleReport \/ ExceptionHandled \/ AfterCycle

LoopNext ==
    \/ StartCycle \/ SubmitScraper \/ ScraperExits \/ ScraperKilled \/ SubmitChecks
    \/ CheckReturns \/ ChecksCollected \/ MainStarts \/ MainReturns \/ PushStep
    \/ CycleReport \/ CycleRaises \/ ExceptionHandled \/ AfterCycle \/ SleepEnds
    \/ Interrupted

SpecLoop == LoopInit /\ [][LoopNext]_vars

\* The interpreter keeps running the main thread, a scraper ends within
\* TIMEOUT_EACH (it exits or is killed), wait_for_file_stable and the main
\* script end within their deadlines, and time.sleep returns.  Nothing makes
\* an exception or a Ctrl+C happen.
FairSpecLoop ==
    /\ SpecLoop
    /\ WF_vars(MainThreadStep)
    /\ WF_vars(ScraperExits \/ ScraperKilled)
    /\ WF_vars(CheckReturns)
    /\ WF_vars(MainReturns)
    /\ WF_vars(SleepEnds)

(***************************************************************************)
(* Claims about one_cycle and main_loop.                                   *)
(***************************************************************************)
\* run_main has started the main script, or has returned.
MainStarted == pc = "main_running" \/ main_ret # <<>>

ScrapersEnded ==
    /\ futures = Cardinality(scrapers_to_run)
    /\ \A s \in scrapers_to_run : proc[s] \in {"exited", "killed", "failed"}
    /\ \A s \in Scrapers : proc[s] # "running"

ChecksReturned == \A o \in OutputsOf(scrapers_to_run) : stability[o] = "returned"

\* one_cycle is not running: it has returned or an exception has left it.
CycleOver == pc \in {"after_cycle", "sleeping", "loop_top", "loop_exit", "loop_crashed"}

MainAfterScrapers == MainStarted => ScrapersEnded /\ ChecksReturned
PushOnlyOnSuccess == pushed => main_ret = <<0>> /\ target_exists /\ target_stable
ReportAfterPush == report_written => main_ret # <<>> /\ pc \notin {"push", "report"}
PushBeforeReport == [][pushed' /\ ~pushed => ~report_written']_vars

Caught == pc = "after_cycle" /\ raised = "Exception"
LoopEnded == pc \in {"loop_exit", "loop_crashed"}
StartsAtOnceOnlyInNormalMode ==
    [][pc = "after_cycle" /\ pc' = "loop_top" => ~CONTINUOUS_MODE]_vars

\* C26 as stated: an exception other than KeyboardInterrupt raised inside
\* one_cycle is caught and the next cycle is eventually started; it starts at
\* once only in normal mode (when the cycle overran), after a sleep otherwise;
\* and the loop ends only when one_cycle raised KeyboardInterrupt.
C26_KeepsCycling ==
    /\ (pc = "unwinding" /\ raised = "Exception") ~> Caught
    /\ Caught ~> (raised = "none")
    /\ StartsAtOnceOnlyInNormalMode
    /\ [](LoopEnded => raised = "KeyboardInterrupt")

\* C26 amended: the exception is caught and the next cycle is eventually
\* started unless a KeyboardInterrupt arrives first; the loop is ended by the
\* break only when one_cycle raised KeyboardInterrupt, and otherwise only by a
\* KeyboardInterrupt that arrives between two cycles and leaves main_loop.
C26_KeepsCyclingUntilInterrupted ==
    /\ (pc = "unwinding" /\ raised = "Exception") ~> Caught
    /\ Caught ~> (raised = "none" \/ pc = "loop_crashed")
    /\ StartsAtOnceOnlyInNormalMode
    /\ [](pc = "loop_exit" => raised = "KeyboardInterrupt")
    /\ [][LoopEnded' /\ ~LoopEnded =>
             \/ pc = "unwinding" /\ raised = "KeyboardInterrupt"
             \/ pc \in {"after_cycle", "sleeping"} /\ pc' = "loop_crashed"]_vars

\* C26 witness: in normal mode the first cycle ran its scrapers, raised an
\* exception that was caught, and the loop sleeps until the next cycle.
C26_Witness ==
    /\ pc = "sleeping"
    /\ ~CONTINUOUS_MODE
    /\ raised = "Exception"
    /\ scrapers_done
    /\ ~report_written

====
